---- MODULE Spec2Model ----
(***************************************************************************)
(* analytiCV: the overlay text editor of the resume analyzer.              *)
(*                                                                         *)
(* The model covers the DocumentCanvas component (render generations, the  *)
(* editable spans, the pending-save queue and its flush), the editor page  *)
(* that hosts it (save / analyze / export / upload handlers), the          *)
(* localStorage edit store and the updateResumeBlocks request protocol     *)
(* (deduplication map, timeout, retry).                                    *)
(*                                                                         *)
(* JavaScript is single threaded: one action is one task of the event      *)
(* loop, i.e. the code that runs from one await (or event) to the next,    *)
(* together with the promise continuations that run in the same microtask  *)
(* checkpoint.                                                             *)
(***************************************************************************)
EXTENDS Integers, Sequences, FiniteSets, TLC

(***************************************************************************)
(* Bounds of the model                                                     *)
(***************************************************************************)
\* pages of a document (pageNumber is 1-based in DocumentCanvas)
MaxPage == 2
\* largest index of a text item on a page (indices are 0-based)
MaxIndex == 0
\* renderPage calls explored (renderIdRef never exceeds it)
MaxRenders == 2
\* request promises updateResumeBlocks creates
MaxRequests == 2
\* edits the user commits (blurs that change a block)
MaxEdits == 2

\* updateResumeBlocks: const { retry = 1, ... } = options
DefaultRetry == 1

\* object URLs of the uploaded files (one per document)
Docs == {"A", "B"}
NoDoc == "none"
\* a document proxy after destroy()
Destroyed == "destroyed"
\* what the user may type into a span
TypeTexts == {"x", "y"}

Pages == 1..MaxPage
Indices == 0..MaxIndex
\* `block-${pageNumber}-${index}` is modelled as the pair <<pageNumber, index>>
CanvasIds == Pages \X Indices
None == <<0, 0 - 1>>

EmptyMap == <<>>

\* Map.set / object property assignment
MapSet(m, k, v) == [x \in (DOMAIN m) \cup {k} |-> IF x = k THEN v ELSE m[x]]

(***************************************************************************)
(* The documents: textContent.items of a page, as pdf.js reports them      *)
(***************************************************************************)
\* the text item `index` of page `page` of the document at `doc`
PdfText(doc, page, index) == IF doc = "A" THEN "a" ELSE "b"

(***************************************************************************)
(* editorStorage: four localStorage keys                                   *)
(***************************************************************************)
\* localStorage with no key of STORAGE_KEYS set
NoStorage ==
  [hasEdits |-> FALSE, edits |-> EmptyMap, hasTimestamp |-> FALSE,
   hasPdfName |-> FALSE, pdfName |-> "", dirtyFlag |-> "absent"]

NullEdits == [ok |-> FALSE, edits |-> EmptyMap, pdfName |-> "", isDirty |-> FALSE]

getStoredEdits(store) ==
  IF ~store.hasEdits \/ ~store.hasTimestamp \/ ~store.hasPdfName \/ store.pdfName = ""
    THEN NullEdits
    ELSE [ok |-> TRUE, edits |-> store.edits, pdfName |-> store.pdfName,
          isDirty |-> (store.dirtyFlag = "true")]

RECURSIVE MergeUpdates(_, _)
\* for (const update of updates) edits[update.blockId] = update.newText
MergeUpdates(edits, updates) ==
  IF updates = <<>> THEN edits
  ELSE MergeUpdates(MapSet(edits, Head(updates).blockId, Head(updates).newText),
                    Tail(updates))

\* a save to storage that drops the entries it is not given
OverwriteEdits(store, updates, pdfName, markDirty) ==
  [hasEdits |-> TRUE, edits |-> MergeUpdates(EmptyMap, updates),
   hasTimestamp |-> TRUE, hasPdfName |-> TRUE, pdfName |-> pdfName,
   dirtyFlag |-> IF markDirty THEN "true" ELSE "false"]

\* a save to storage that merges into whatever record is there
MergeAnyDocument(store, updates, pdfName, markDirty) ==
  [hasEdits |-> TRUE, edits |-> MergeUpdates(getStoredEdits(store).edits, updates),
   hasTimestamp |-> TRUE, hasPdfName |-> TRUE, pdfName |-> pdfName,
   dirtyFlag |-> IF markDirty THEN "true" ELSE "false"]

saveEditsToStorage(store, updates, pdfName, markDirty) ==
  LET existing == getStoredEdits(store)
      edits == IF existing.ok /\ existing.pdfName = pdfName
                 THEN existing.edits ELSE EmptyMap
  IN [hasEdits |-> TRUE, edits |-> MergeUpdates(edits, updates),
      hasTimestamp |-> TRUE, hasPdfName |-> TRUE, pdfName |-> pdfName,
      dirtyFlag |-> IF markDirty THEN "true" ELSE "false"]

markEditsSynced(store) ==
  [store EXCEPT !.dirtyFlag = "false", !.hasTimestamp = TRUE]

markEditsDirty(store) == [store EXCEPT !.dirtyFlag = "true"]

clearStoredEdits(store) == NoStorage

\* the name every caller of saveEditsToStorage passes for the document
CurrentResume == "current_resume"

(***************************************************************************)
(* State                                                                   *)
(***************************************************************************)
VARIABLES
  \* --- props the page passes to the canvas, and page state
  pdfUrl,            \* state.pdfUrl
  pageNumber,        \* currentPage + 1
  savedBlocksMap,    \* the updatedBlocks prop (updatedBlocksRef)
  hostPending,       \* the page's hasPendingChanges state
  hostOp,            \* the page handler that is running, and where it is
  \* --- DocumentCanvas refs and state
  renderIdRef,
  renders,           \* the renderPage calls in flight: id -> closure and position
  renderTaskRef,     \* id of the render whose page.render task is stored, or 0
  pdfDocRef,
  currentPdfUrlRef,
  blockMap,          \* blockMapRef / blocksByIdRef: id -> block and its span
  originalTextRef,
  focused,           \* the span that has the focus, or None
  pendingSaves,      \* pendingSavesRef
  hasPendingState,   \* the canvas' hasPendingChanges state
  isSavingRef,
  flight,            \* the saves the running saveChanges awaits (Promise.all)
  flushCaller,       \* who awaits the running saveChanges
  \* --- services/editorApi
  promises,          \* request promises of updateResumeBlocks, by creation number
  pendingRequests,   \* requestKey -> request promise
  \* --- localStorage and the backend
  ls,
  remoteEdits,       \* the edits the update endpoint has accepted, by block id
  \* --- history variables
  shown,             \* the render whose blocks are displayed
  focusSnap,         \* the block as it was when it got the focus
  nEdits,            \* edits committed so far
  nRequests,         \* request promises created so far
  lastRet,           \* the last return of saveChanges
  act,               \* the handler that ran last
  saveError,         \* the SaveError the last step threw, if it threw one
  textChange,        \* the call of onTextChange the last step made, if it made one
  newUpload,         \* the upload no commit has followed yet, and whether it cleared
  \* --- utils/pdfExport
  exportRun,         \* a call of exportToPDF: its config, and what it has drawn
  \* --- functions of the canvas applied on their own
  resolveRun,        \* calls of getResolvedText for one block, and their results
  extractRun,        \* extractions of one page at one scale, and their blocks
  keyRun,            \* two payloads of updateResumeBlocks, and their request keys
  storeRun,          \* a call of saveEditsToStorage: store before, arguments, store after
  editorState,       \* the state of editorReducer: extractionResult, blocks, currentPage
  wordStyle,         \* WordStyleEditor: the blocks the canvas reported, blockMappingRef
  fontRun            \* calls of getFontInfo for one font name: fontCache and the results

vars == <<pdfUrl, pageNumber, savedBlocksMap, hostPending, hostOp, renderIdRef,
          renders, renderTaskRef, pdfDocRef, currentPdfUrlRef, blockMap,
          originalTextRef, focused, pendingSaves, hasPendingState, isSavingRef,
          flight, flushCaller, promises, pendingRequests, ls,
          remoteEdits, shown, focusSnap, nEdits, nRequests, lastRet, act,
          saveError, textChange, newUpload, exportRun, resolveRun, extractRun, keyRun,
                 storeRun, editorState, wordStyle,
                 fontRun>>

fnVars == <<exportRun, resolveRun, extractRun, keyRun,
                 storeRun, editorState, wordStyle,
                 fontRun>>
hostVars == <<pdfUrl, pageNumber, savedBlocksMap, hostPending, hostOp>>
renderVars == <<renderIdRef, renders, renderTaskRef, pdfDocRef, currentPdfUrlRef>>
saveVars == <<pendingSaves, hasPendingState, isSavingRef, flight, flushCaller>>
apiVars == <<promises, pendingRequests>>

NoOp == [kind |-> "none", pc |-> "idle", readWith |-> "none"]
NoRet == [caller |-> "none", ret |-> TRUE, pendingLeft |-> FALSE]
NoSnap == [dom |-> "", text |-> "", isEdited |-> FALSE]

\* isLocked={isAnalyzing}
isLocked == hostOp.kind = "analyze"

\* The page is mounted with the first document; the mount effect has called
\* renderPage, which is waiting for the document to load.
\* no call of exportToPDF
NoExport == [pc |-> "none", blocks |-> <<>>, blockStates |-> EmptyMap,
             numPages |-> 0, drawn |-> <<>>]

\* no call of the onTextChange prop
NoCall == [blockId |-> None, oldText |-> "", newText |-> ""]

\* no SaveError thrown
NoError == [status |-> 0, code |-> "none"]

\* no call of getResolvedText, no extraction
NoResolve == [blockId |-> None, originalText |-> "", results |-> <<>>]
NoExtract == [items |-> <<>>, scale |-> 1, passes |-> <<>>]
NoKeys == [first |-> <<>>, second |-> <<>>, keys |-> <<>>]
NoSave == [called |-> FALSE]
NoFont == [fontName |-> <<>>, fontCache |-> <<>>, results |-> <<>>]
\* useEditorState: initialState (the fields the editor reads)
InitialState == [extractionResult |-> <<>>, blocks |-> <<>>, currentPage |-> 0]
\* no commit of the canvas has just been handed to WordStyleEditor
NoCommit == [block |-> None, text |-> <<>>]
NoWordStyle == [canvas |-> <<>>, extractedBlocksRef |-> <<>>, blockMappingRef |-> <<>>,
                commit |-> NoCommit]

\* the page and the canvas after the first render of the component
CanvasInit ==
  /\ pdfUrl = "A"
  /\ pageNumber = 1
  /\ savedBlocksMap = EmptyMap
  /\ hostPending = FALSE
  /\ hostOp = NoOp
  /\ renderIdRef = 1
  /\ renders = [r \in {1} |-> [pc |-> "load", url |-> "A", page |-> 1, pdf |-> NoDoc]]
  /\ renderTaskRef = 0
  /\ pdfDocRef = NoDoc
  /\ currentPdfUrlRef = "A"
  /\ blockMap = EmptyMap
  /\ originalTextRef = EmptyMap
  /\ focused = None
  /\ pendingSaves = EmptyMap
  /\ hasPendingState = FALSE
  /\ isSavingRef = FALSE
  /\ flight = EmptyMap
  /\ flushCaller = "none"
  /\ promises = EmptyMap
  /\ pendingRequests = EmptyMap
  /\ ls = NoStorage
  /\ shown = [url |-> NoDoc, page |-> 0]
  /\ remoteEdits = EmptyMap
  /\ focusSnap = NoSnap
  /\ nEdits = 0
  /\ nRequests = 0
  /\ lastRet = NoRet
  /\ act = "mount"
  /\ saveError = NoError
  /\ textChange = NoCall
  /\ newUpload = "none"

Init ==
  /\ CanvasInit
  /\ exportRun = NoExport
  /\ resolveRun = NoResolve
  /\ extractRun = NoExtract
  /\ keyRun = NoKeys
  /\ storeRun = NoSave
  /\ editorState = InitialState
  /\ wordStyle = NoWordStyle
  /\ fontRun = NoFont

(***************************************************************************)
(* DocumentCanvas: text resolution                                         *)
(***************************************************************************)
\* getResolvedText: updatedBlocks, then localStorage, then the PDF text.
\* `storedEdits.edits[blockId]` is a truthiness test: "" counts as no entry.
getResolvedText(blockId, originalText) ==
  IF blockId \in DOMAIN savedBlocksMap
    THEN savedBlocksMap[blockId]
    ELSE LET storedEdits == getStoredEdits(ls)
         IN IF storedEdits.ok /\ blockId \in DOMAIN storedEdits.edits
               /\ storedEdits.edits[blockId] # ""
              THEN storedEdits.edits[blockId]
              ELSE originalText

\* getCurrentBlocks mapped to [id, text] pairs: new Map(currentBlocks.map(b => [b.id, b.text]))
CurrentBlocksMap == [b \in DOMAIN blockMap |-> blockMap[b].text]

(***************************************************************************)
(* DocumentCanvas: focus, typing, blur, Escape                             *)
(***************************************************************************)
\* the effect that reports the canvas' hasPendingChanges state to the page
\* runs only when that state changes
ReportPending(old, new, host) == IF new # old THEN new ELSE host

\* a commit that queues no save
QueueNothing(pending, blockId, oldText, newText) == pending

\* queueBlockSave, on the pendingSavesRef map
queueBlockSave(pending, blockId, oldText, newText) ==
  IF oldText = newText THEN pending
  ELSE MapSet(pending, blockId,
              [blockId |-> blockId, oldText |-> oldText, newText |-> newText])

\* handleBlur: `originalTextRef.current.get(block.id) || block.text`
RollbackText(b) ==
  IF b \in DOMAIN originalTextRef /\ originalTextRef[b] # ""
    THEN originalTextRef[b] ELSE blockMap[b].text

\* handleBlur for the span of block b whose textContent is newText
DoBlur(b, newText) ==
  LET originalText == RollbackText(b)
      hasChanged == newText # originalText
      queued == queueBlockSave(pendingSaves, b, originalText, newText)
      pendingNow == IF queued # pendingSaves THEN TRUE ELSE hasPendingState
  IN /\ focused' = None
     /\ focusSnap' = NoSnap
     /\ IF hasChanged
          THEN /\ nEdits < MaxEdits
               /\ nEdits' = nEdits + 1
               /\ blockMap' = MapSet(blockMap, b,
                        [text |-> newText, isEdited |-> TRUE, dom |-> newText])
               /\ originalTextRef' = MapSet(originalTextRef, b, newText)
               /\ ls' = markEditsDirty(saveEditsToStorage(ls,
                        <<[blockId |-> b, oldText |-> originalText, newText |-> newText]>>,
                        CurrentResume, TRUE))
               /\ pendingSaves' = queued
               /\ hasPendingState' = pendingNow
               /\ hostPending' = ReportPending(hasPendingState, pendingNow, hostPending)
               /\ textChange' = [blockId |-> b, oldText |-> originalText,
                                 newText |-> newText]
               /\ newUpload' = "none"
          ELSE /\ blockMap' = MapSet(blockMap, b, [blockMap[b] EXCEPT !.dom = newText])
               /\ textChange' = NoCall
               /\ UNCHANGED <<originalTextRef, ls, pendingSaves, hasPendingState,
                              hostPending, nEdits, newUpload>>
     /\ UNCHANGED <<pdfUrl, pageNumber, savedBlocksMap, hostOp, renderVars,
                    isSavingRef, flight, flushCaller, apiVars, shown,
                    nRequests, lastRet>>

\* focusin on the span of block b (when locked the span is blurred at once)
handleFocus(b) ==
  /\ b \in DOMAIN blockMap
  /\ focused = None
  /\ ~isLocked
  /\ originalTextRef' = MapSet(originalTextRef, b, blockMap[b].dom)
  /\ focused' = b
  /\ focusSnap' = blockMap[b]
  /\ UNCHANGED remoteEdits
  /\ UNCHANGED fnVars
  /\ textChange' = NoCall
  /\ UNCHANGED newUpload
  /\ saveError' = NoError
  /\ act' = "handleFocus"
  /\ UNCHANGED <<hostVars, renderVars, blockMap, saveVars, apiVars, ls,
                 shown, nEdits, nRequests, lastRet>>

\* typing that commits every change of the content as a blur does
TypingCommits(b, t) ==
  /\ focused = b
  /\ ~isLocked
  /\ t # blockMap[b].dom
  /\ DoBlur(b, t)
  /\ UNCHANGED remoteEdits
  /\ UNCHANGED fnVars
  /\ saveError' = NoError
  /\ act' = "handleTextMutation"

\* the user changes the content of the focused span (keystroke or paste);
\* handleTextMutation only notes the id in pendingChangesRef, which nothing reads
handleTextMutation(b, t) ==
  /\ focused = b
  /\ ~isLocked
  /\ t # blockMap[b].dom
  /\ blockMap' = MapSet(blockMap, b, [blockMap[b] EXCEPT !.dom = t])
  /\ UNCHANGED remoteEdits
  /\ UNCHANGED fnVars
  /\ textChange' = NoCall
  /\ UNCHANGED newUpload
  /\ saveError' = NoError
  /\ act' = "handleTextMutation"
  /\ UNCHANGED <<hostVars, renderVars, originalTextRef, focused, saveVars, apiVars,
                 ls, shown, focusSnap, nEdits, nRequests, lastRet>>

\* focusout (also Enter without Shift, which blurs the span)
handleBlur(b) ==
  /\ focused = b
  /\ DoBlur(b, blockMap[b].dom)
  /\ UNCHANGED remoteEdits
  /\ UNCHANGED fnVars
  /\ saveError' = NoError
  /\ act' = "handleBlur"

\* Escape that leaves the typed text in the span
KeepTypedText(b) == blockMap[b].dom

\* the text handleKeyDown puts back on Escape
EscapeText(b) ==
  IF b \in DOMAIN originalTextRef THEN originalTextRef[b] ELSE blockMap[b].dom

\* keydown Escape: restore the snapshot, then span.blur() runs handleBlur
handleKeyDownEscape(b) ==
  /\ focused = b
  /\ ~isLocked
  /\ DoBlur(b, EscapeText(b))
  /\ UNCHANGED remoteEdits
  /\ UNCHANGED fnVars
  /\ saveError' = NoError
  /\ act' = IF blockMap[b].dom = focusSnap.dom THEN "handleKeyDownEscape"
            ELSE "handleKeyDownEscapeTyped"

(***************************************************************************)
(* DocumentCanvas: renderPage                                              *)
(***************************************************************************)
\* renderPage without its generation checks
NeverStale(r) == FALSE

\* `currentRenderId !== renderIdRef.current`
IsStale(r) == r # renderIdRef

\* the part of renderPage before its first await
StartRender(url, page) ==
  LET id == renderIdRef + 1
      cached == pdfDocRef # NoDoc /\ currentPdfUrlRef = url
      \* cancelCurrentRender: the render that owns the task ends with
      \* RenderingCancelledException
      kept == (DOMAIN renders) \ {renderTaskRef}
      new == [pc |-> IF cached THEN "page" ELSE "load", url |-> url, page |-> page,
              pdf |-> IF cached THEN pdfDocRef ELSE NoDoc]
  IN /\ renderIdRef < MaxRenders
     /\ renderIdRef' = id
     /\ renderTaskRef' = 0
     /\ currentPdfUrlRef' = url
     /\ renders' = [r \in kept \cup {id} |-> IF r = id THEN new ELSE renders[r]]
     \* pdfDocRef.current?.destroy() before a new document is loaded
     /\ pdfDocRef' = IF cached \/ pdfDocRef = NoDoc THEN pdfDocRef ELSE Destroyed

EndRender(r) == renders' = [x \in (DOMAIN renders) \ {r} |-> renders[x]]

\* loadingTask.promise resolves
renderPageLoaded(r) ==
  /\ r \in DOMAIN renders
  /\ renders[r].pc = "load"
  /\ pdfDocRef' = renders[r].url
  /\ IF IsStale(r)
       THEN EndRender(r)
       ELSE renders' = [renders EXCEPT ![r].pc = "page", ![r].pdf = renders[r].url]
  /\ UNCHANGED remoteEdits
  /\ UNCHANGED fnVars
  /\ textChange' = NoCall
  /\ UNCHANGED newUpload
  /\ saveError' = NoError
  /\ act' = "renderPageLoaded"
  /\ UNCHANGED <<hostVars, renderIdRef, renderTaskRef, currentPdfUrlRef, blockMap,
                 originalTextRef, focused, saveVars, apiVars, ls, shown,
                 focusSnap, nEdits, nRequests, lastRet>>

\* loadingTask.promise rejects: handleError(..., 'load'), renderState 'error'
renderPageLoadFailed(r) ==
  /\ r \in DOMAIN renders
  /\ renders[r].pc = "load"
  /\ EndRender(r)
  /\ UNCHANGED remoteEdits
  /\ UNCHANGED fnVars
  /\ textChange' = NoCall
  /\ UNCHANGED newUpload
  /\ saveError' = NoError
  /\ act' = "renderPageLoadFailed"
  /\ UNCHANGED <<hostVars, renderIdRef, renderTaskRef, pdfDocRef, currentPdfUrlRef,
                 blockMap, originalTextRef, focused, saveVars, apiVars, ls,
                 shown, focusSnap, nEdits, nRequests, lastRet>>

\* pdf.getPage resolves; the canvas is set up and page.render is started
renderPageGotPage(r) ==
  /\ r \in DOMAIN renders
  /\ renders[r].pc = "page"
  \* getPage of a destroyed document rejects: the render ends in the catch
  /\ IF IsStale(r) \/ renders[r].pdf = Destroyed
       THEN EndRender(r) /\ UNCHANGED renderTaskRef
       ELSE /\ renders' = [renders EXCEPT ![r].pc = "paint"]
            /\ renderTaskRef' = r
  /\ UNCHANGED remoteEdits
  /\ UNCHANGED fnVars
  /\ textChange' = NoCall
  /\ UNCHANGED newUpload
  /\ saveError' = NoError
  /\ act' = "renderPageGotPage"
  /\ UNCHANGED <<hostVars, renderIdRef, pdfDocRef, currentPdfUrlRef, blockMap,
                 originalTextRef, focused, saveVars, apiVars, ls, shown,
                 focusSnap, nEdits, nRequests, lastRet>>

\* renderTaskRef.current.promise resolves; getTextContent is requested
renderPagePainted(r) ==
  /\ r \in DOMAIN renders
  /\ renders[r].pc = "paint"
  /\ IF IsStale(r)
       THEN EndRender(r) /\ UNCHANGED renderTaskRef
       ELSE /\ renders' = [renders EXCEPT ![r].pc = "text"]
            /\ renderTaskRef' = 0
  /\ UNCHANGED remoteEdits
  /\ UNCHANGED fnVars
  /\ textChange' = NoCall
  /\ UNCHANGED newUpload
  /\ saveError' = NoError
  /\ act' = "renderPagePainted"
  /\ UNCHANGED <<hostVars, renderIdRef, pdfDocRef, currentPdfUrlRef, blockMap,
                 originalTextRef, focused, saveVars, apiVars, ls, shown,
                 focusSnap, nEdits, nRequests, lastRet>>

\* a text layer rebuilt from the resolved texts only
AlwaysResolve(blockId, str) == getResolvedText(blockId, str)

\* the text the span of a new block gets: the live text of the span that had
\* the id before (savedTexts), else the resolved text
TextToUse(blockId, str) ==
  IF blockId \in DOMAIN blockMap THEN blockMap[blockId].dom
  ELSE getResolvedText(blockId, str)

\* page.getTextContent resolves: the text layer is rebuilt
renderPageGotText(r) ==
  /\ r \in DOMAIN renders
  /\ renders[r].pc = "text"
  /\ EndRender(r)
  /\ IF IsStale(r)
       THEN UNCHANGED <<blockMap, originalTextRef, focused, shown, focusSnap>>
       ELSE LET rec == renders[r]
                ids == {rec.page} \X Indices
                str(id) == PdfText(rec.pdf, rec.page, id[2])
            IN /\ blockMap' = [id \in ids |->
                     [text |-> TextToUse(id, str(id)),
                      isEdited |-> (TextToUse(id, str(id)) # str(id)),
                      dom |-> TextToUse(id, str(id))]]
               \* (the entries of blocks that left the page stay in the map, but
               \* nothing reads them before a render sets them again)
               /\ originalTextRef' = [id \in ids |-> TextToUse(id, str(id))]
               /\ focused' = None
               /\ focusSnap' = NoSnap
               /\ shown' = [url |-> rec.url, page |-> rec.page]
  /\ UNCHANGED remoteEdits
  /\ UNCHANGED fnVars
  /\ textChange' = NoCall
  /\ UNCHANGED newUpload
  /\ saveError' = NoError
  /\ act' = IF IsStale(r) THEN "renderPageDiscarded"
            ELSE IF shown = [url |-> renders[r].url, page |-> renders[r].page]
              THEN "renderPageReextracted"
              ELSE "renderPageGotText"
  /\ UNCHANGED <<hostVars, renderIdRef, renderTaskRef, pdfDocRef, currentPdfUrlRef,
                 saveVars, apiVars, ls, nEdits, nRequests, lastRet>>

(***************************************************************************)
(* The page: page, scale and document changes re-run the render effect     *)
(***************************************************************************)
\* a control of the page is clicked: the focused span loses the focus first
\* (handleBlur), so page handlers start with no span focused
handlePageChange(p) ==
  /\ focused = None
  /\ p \in Pages /\ p # pageNumber
  /\ pageNumber' = p
  /\ StartRender(pdfUrl, p)
  /\ UNCHANGED remoteEdits
  /\ UNCHANGED fnVars
  /\ textChange' = NoCall
  /\ UNCHANGED newUpload
  /\ saveError' = NoError
  /\ act' = "handlePageChange"
  /\ UNCHANGED <<pdfUrl, savedBlocksMap, hostPending, hostOp, blockMap,
                 originalTextRef, focused, saveVars, apiVars, ls, shown,
                 focusSnap, nEdits, nRequests, lastRet>>

handleScaleChange ==
  /\ focused = None
  /\ StartRender(pdfUrl, pageNumber)
  /\ UNCHANGED remoteEdits
  /\ UNCHANGED fnVars
  /\ textChange' = NoCall
  /\ UNCHANGED newUpload
  /\ saveError' = NoError
  /\ act' = "handleScaleChange"
  /\ UNCHANGED <<hostVars, blockMap, originalTextRef, focused, saveVars, apiVars, ls,
                 shown, focusSnap, nEdits, nRequests, lastRet>>

\* handleFileUpload with another file: the saved-blocks map is reset, setPdf
\* gives the canvas the new object URL, extractPDFBlocks clears localStorage
\* (the extractPDFBlocks of unnamed/part_002 does; the one of
\* services/editorApi.ts leaves localStorage alone: clears says which is built)
handleFileUpload(d, clears) ==
  /\ focused = None
  /\ hostOp.kind = "none"
  /\ d \in Docs /\ d # pdfUrl
  /\ savedBlocksMap' = EmptyMap
  /\ pdfUrl' = d
  /\ StartRender(d, pageNumber)
  /\ ls' = IF clears THEN clearStoredEdits(ls) ELSE ls
  /\ UNCHANGED remoteEdits
  /\ UNCHANGED fnVars
  /\ textChange' = NoCall
  /\ newUpload' = IF clears THEN "cleared" ELSE "kept"
  /\ saveError' = NoError
  /\ act' = "handleFileUpload"
  /\ UNCHANGED <<pageNumber, hostPending, hostOp, blockMap, originalTextRef, focused,
                 saveVars, apiVars, shown, focusSnap, nEdits, nRequests, lastRet>>

(***************************************************************************)
(* services/editorApi: updateResumeBlocks, and the page's handleBlockSave   *)
(***************************************************************************)
\* handleBlockSave: `state.extractionResult?.blocks[spanIndex]?.id`, spanIndex
\* being the number the canvas id ends with
ExtractionId(blockId) == <<0, blockId[2]>>

\* an update sent under the id the canvas gave the block
CanvasUpdate(update) ==
  [blockId |-> update.blockId, oldText |-> update.oldText, newText |-> update.newText]

\* handleBlockSave: the update sent to the backend for a canvas update
BackendUpdate(update) ==
  [blockId |-> ExtractionId(update.blockId), oldText |-> update.oldText,
   newText |-> update.newText]

\* getRequestKey of a one-block request: `${blockId}:${newText}`
getRequestKey(update) == [blockId |-> update.blockId, newText |-> update.newText]

RequestIds == 1..MaxRequests

\* the request promise an updateResumeBlocks call creates
\* (fetches counts the POSTs sent for it; on is the promise it was resolved with)
NewRequest(key) ==
  [key |-> key, pc |-> "fetch", retry |-> DefaultRetry, fetches |-> 1, on |-> 0]

MapRemove(m, k) == [x \in (DOMAIN m) \ {k} |-> m[x]]

(***************************************************************************)
(* DocumentCanvas: saveChanges                                             *)
(***************************************************************************)
\* the page handler that awaited saveChanges goes on with its result
AfterSaveChanges(caller, ret) ==
  LET readWith == IF pendingSaves' = EmptyMap /\ ~isSavingRef' THEN "clean"
                  ELSE "pending"
  IN CASE caller = "auto" ->
            /\ hostPending' = ReportPending(hasPendingState, hasPendingState', hostPending)
            /\ UNCHANGED <<hostOp, savedBlocksMap>>
       [] caller = "save" ->
            /\ hostOp' = NoOp
            /\ IF ret
                 THEN hostPending' = FALSE /\ savedBlocksMap' = CurrentBlocksMap
                 ELSE /\ hostPending' =
                           ReportPending(hasPendingState, hasPendingState', hostPending)
                      /\ UNCHANGED savedBlocksMap
       [] caller = "analyze" ->
            IF ret
              THEN /\ hostOp' = [kind |-> "analyze", pc |-> "wait", readWith |-> "none"]
                   /\ hostPending' = FALSE
                   /\ savedBlocksMap' = CurrentBlocksMap
              ELSE /\ hostOp' = NoOp
                   /\ hostPending' =
                        ReportPending(hasPendingState, hasPendingState', hostPending)
                   /\ UNCHANGED savedBlocksMap
       [] caller = "export" ->
            \* the result of saveChanges is not looked at
            /\ hostOp' = [kind |-> "export", pc |-> "net", readWith |-> readWith]
            /\ hostPending' = FALSE
            /\ savedBlocksMap' = CurrentBlocksMap

\* saveChanges returns at once: nothing is pending, or a flush is running
saveChangesNoop(caller) ==
  /\ pendingSaves = EmptyMap \/ isSavingRef
  /\ lastRet' = [caller |-> caller, ret |-> TRUE, pendingLeft |-> pendingSaves # EmptyMap]
  /\ UNCHANGED <<saveVars, apiVars, nRequests>>
  /\ AfterSaveChanges(caller, TRUE)

\* a flush that starts whenever saves are pending
FlushWhilePending == pendingSaves # EmptyMap

\* saveChanges goes past its first test (and autoSave calls it) when saves are
\* pending and no flush is running
MayFlush == pendingSaves # EmptyMap /\ ~isSavingRef

\* saveChanges up to `await Promise.all(...)`: one handleBlockSave call per
\* pending update, each calling updateResumeBlocks with one block
saveChangesStart(caller) ==
  LET keyOf(b) == getRequestKey(BackendUpdate(pendingSaves[b]))
      newKeys == {keyOf(b) : b \in DOMAIN pendingSaves} \ DOMAIN pendingRequests
      free == (nRequests + 1)..(nRequests + Cardinality(newKeys))
  IN /\ MayFlush
     /\ nRequests + Cardinality(newKeys) <= MaxRequests
     /\ nRequests' = nRequests + Cardinality(newKeys)
     /\ LET id == CHOOSE f \in [newKeys -> free] :
                    \A j, k \in newKeys : f[j] = f[k] => j = k
            requestOf(key) == IF key \in DOMAIN pendingRequests
                                THEN pendingRequests[key] ELSE id[key]
        IN /\ promises' = [q \in (DOMAIN promises) \cup {id[k] : k \in newKeys} |->
                 IF q \in DOMAIN promises THEN promises[q]
                 ELSE NewRequest(CHOOSE k \in newKeys : id[k] = q)]
           /\ pendingRequests' = [k \in (DOMAIN pendingRequests) \cup newKeys |->
                 requestOf(k)]
           /\ flight' = [b \in DOMAIN pendingSaves |->
                 [pid |-> requestOf(keyOf(b)), st |-> "wait",
                  newText |-> pendingSaves[b].newText]]
     /\ isSavingRef' = TRUE
     /\ flushCaller' = caller
     /\ UNCHANGED <<pendingSaves, hasPendingState, lastRet>>

\* the interval timer: autoSave
autoSave ==
  /\ saveChangesStart("auto")
  /\ UNCHANGED remoteEdits
  /\ UNCHANGED fnVars
  /\ textChange' = NoCall
  /\ UNCHANGED newUpload
  /\ saveError' = NoError
  /\ act' = "autoSave"
  /\ UNCHANGED <<hostVars, renderVars, blockMap, originalTextRef, focused, ls,
                 shown, focusSnap, nEdits>>

(***************************************************************************)
(* A request promise settles                                               *)
(***************************************************************************)
Awaits(p) == {b \in DOMAIN flight : flight[b].pid = p}

\* the request promise p resolves: every handleBlockSave awaiting it goes on,
\* and so does saveChanges when it was the last one Promise.all waited for
Resolved(p) ==
  LET after == [b \in DOMAIN flight |->
                  IF flight[b].pid = p THEN [flight[b] EXCEPT !.st = "ok"]
                  ELSE flight[b]]
      done == Awaits(p) # {} /\ \A b \in DOMAIN after : after[b].st = "ok"
  IN IF done
       THEN /\ pendingSaves' = EmptyMap
            /\ hasPendingState' = FALSE
            /\ isSavingRef' = FALSE
            /\ flight' = EmptyMap
            /\ flushCaller' = "none"
            /\ lastRet' = [caller |-> flushCaller, ret |-> TRUE, pendingLeft |-> FALSE]
            /\ IF flushCaller = "auto"
                 THEN /\ hostPending' = ReportPending(hasPendingState, FALSE, hostPending)
                      /\ savedBlocksMap' = CurrentBlocksMap
                      /\ UNCHANGED hostOp
                 ELSE AfterSaveChanges(flushCaller, TRUE)
       ELSE /\ flight' = after
            /\ savedBlocksMap' = CurrentBlocksMap
            /\ UNCHANGED <<pendingSaves, hasPendingState, isSavingRef, flushCaller,
                           lastRet, hostPending, hostOp>>

\* a rejection that saveChanges takes for a success
RejectedTakenAsResolved(p) == Resolved(p)

\* the request promise p rejects: Promise.all rejects at once, saveChanges
\* returns false and clears nothing
Rejected(p) ==
  IF Awaits(p) # {}
    THEN /\ isSavingRef' = FALSE
         /\ flight' = EmptyMap
         /\ flushCaller' = "none"
         /\ lastRet' = [caller |-> flushCaller, ret |-> FALSE,
                        pendingLeft |-> pendingSaves # EmptyMap]
         /\ UNCHANGED <<pendingSaves, hasPendingState>>
         /\ AfterSaveChanges(flushCaller, FALSE)
    ELSE UNCHANGED <<saveVars, lastRet, hostPending, hostOp, savedBlocksMap>>

\* the update endpoint answers 2xx
fetchOk(p) ==
  /\ p \in DOMAIN promises
  /\ promises[p].pc = "fetch"
  /\ ls' = markEditsSynced(saveEditsToStorage(ls, <<promises[p].key>>, CurrentResume, FALSE))
  /\ promises' = MapRemove(promises, p)
  /\ pendingRequests' = MapRemove(pendingRequests, promises[p].key)
  /\ Resolved(p)
  /\ remoteEdits' = MapSet(remoteEdits, promises[p].key.blockId, promises[p].key.newText)
  /\ UNCHANGED fnVars
  /\ textChange' = NoCall
  /\ UNCHANGED newUpload
  /\ saveError' = NoError
  /\ act' = "fetchOk"
  /\ UNCHANGED <<pdfUrl, pageNumber, renderVars, blockMap, originalTextRef, focused,
                 shown, focusSnap, nEdits, nRequests>>

\* the statuses of a response that is not ok
ErrorStatuses == {400, 404, 422, 500}

\* errorCode of the SaveError thrown for a response that is not ok: it starts
\* as 'SERVER_ERROR' and only 422 changes it
ErrorCode(status) ==
  IF status = 404 THEN "SERVER_ERROR"
  ELSE IF status = 422 THEN "VALIDATION_ERROR"
  ELSE IF status >= 500 THEN "SERVER_ERROR"
  ELSE "SERVER_ERROR"

\* the update endpoint answers with an error status: a SaveError is thrown
fetchHttpError(p, status) ==
  /\ p \in DOMAIN promises
  /\ promises[p].pc = "fetch"
  /\ promises' = MapRemove(promises, p)
  /\ pendingRequests' = MapRemove(pendingRequests, promises[p].key)
  /\ Rejected(p)
  /\ UNCHANGED remoteEdits
  /\ UNCHANGED fnVars
  /\ textChange' = NoCall
  /\ UNCHANGED newUpload
  /\ saveError' = [status |-> status, code |-> ErrorCode(status)]
  /\ act' = "fetchHttpError"
  /\ UNCHANGED <<pdfUrl, pageNumber, renderVars, blockMap, originalTextRef, focused,
                 ls, shown, focusSnap, nEdits, nRequests>>

\* the abort timer fires: fetch rejects with an AbortError, which the catch
\* turns into a NETWORK_ERROR at once
fetchTimeout(p) ==
  /\ p \in DOMAIN promises
  /\ promises[p].pc = "fetch"
  /\ promises' = MapRemove(promises, p)
  /\ pendingRequests' = MapRemove(pendingRequests, promises[p].key)
  /\ Rejected(p)
  /\ UNCHANGED remoteEdits
  /\ UNCHANGED fnVars
  /\ textChange' = NoCall
  /\ UNCHANGED newUpload
  /\ saveError' = [status |-> 0, code |-> "NETWORK_ERROR"]
  /\ act' = "fetchTimeout"
  /\ UNCHANGED <<pdfUrl, pageNumber, renderVars, blockMap, originalTextRef, focused,
                 ls, shown, focusSnap, nEdits, nRequests>>

\* fetch rejects with a TypeError (the network failed)
fetchNetworkError(p) ==
  /\ p \in DOMAIN promises
  /\ promises[p].pc = "fetch"
  /\ IF promises[p].retry > 0
       THEN /\ promises' = [promises EXCEPT ![p].pc = "backoff"]
            /\ UNCHANGED <<pendingRequests, saveVars, lastRet, hostPending, hostOp,
                           savedBlocksMap>>
       ELSE /\ promises' = MapRemove(promises, p)
            /\ pendingRequests' = MapRemove(pendingRequests, promises[p].key)
            /\ Rejected(p)
  /\ UNCHANGED remoteEdits
  /\ UNCHANGED fnVars
  /\ textChange' = NoCall
  /\ UNCHANGED newUpload
  /\ saveError' = IF promises[p].retry > 0 THEN NoError
                  ELSE [status |-> 0, code |-> "NETWORK_ERROR"]
  /\ act' = "fetchNetworkError"
  /\ UNCHANGED <<pdfUrl, pageNumber, renderVars, blockMap, originalTextRef, focused,
                 ls, shown, focusSnap, nEdits, nRequests>>

\* the backoff timer fires: `return updateResumeBlocks(blocks, {retry: retry - 1})`,
\* then the finally block deletes the key.  The nested call looks the key up
\* first: when it finds a promise it returns that one and fetches nothing, and
\* the outer promise is resolved with it
backoffDone(p) ==
  /\ p \in DOMAIN promises
  /\ promises[p].pc = "backoff"
  /\ IF promises[p].key \in DOMAIN pendingRequests
       THEN promises' = [promises EXCEPT ![p].pc = "adopt",
                                         ![p].on = pendingRequests[promises[p].key]]
       ELSE promises' = [promises EXCEPT ![p].pc = "fetch",
                                         ![p].retry = promises[p].retry - 1,
                                         ![p].fetches = promises[p].fetches + 1]
  /\ pendingRequests' = MapRemove(pendingRequests, promises[p].key)
  /\ UNCHANGED remoteEdits
  /\ UNCHANGED fnVars
  /\ textChange' = NoCall
  /\ UNCHANGED newUpload
  /\ saveError' = NoError
  /\ act' = "backoffDone"
  /\ UNCHANGED <<hostVars, renderVars, blockMap, originalTextRef, focused, saveVars,
                 ls, shown, focusSnap, nEdits, nRequests, lastRet>>

(***************************************************************************)
(* The page: save, analyze and export                                      *)
(***************************************************************************)
\* what a handler that reads the blocks now reads them with
ReadWith == IF pendingSaves = EmptyMap /\ ~isSavingRef THEN "clean" ELSE "pending"

\* the call of editorRef.current.saveChanges() by a page handler
CallSaveChanges(caller) ==
  \/ saveChangesNoop(caller)
  \/ /\ saveChangesStart(caller)
     /\ hostOp' = [kind |-> caller, pc |-> "flush", readWith |-> "none"]
     /\ UNCHANGED <<hostPending, savedBlocksMap>>

handleSave ==
  /\ focused = None
  /\ hostOp.kind = "none"
  /\ CallSaveChanges("save")
  /\ UNCHANGED remoteEdits
  /\ UNCHANGED fnVars
  /\ textChange' = NoCall
  /\ UNCHANGED newUpload
  /\ saveError' = NoError
  /\ act' = "handleSave"
  /\ UNCHANGED <<pdfUrl, pageNumber, renderVars, blockMap, originalTextRef, focused,
                 ls, shown, focusSnap, nEdits>>

handleAnalyze ==
  /\ focused = None
  /\ hostOp.kind = "none"
  /\ IF hostPending
       THEN CallSaveChanges("analyze")
       ELSE /\ hostOp' = [kind |-> "analyze", pc |-> "net", readWith |-> ReadWith]
            /\ UNCHANGED <<hostPending, savedBlocksMap, saveVars, apiVars, nRequests,
                           lastRet>>
  /\ UNCHANGED remoteEdits
  /\ UNCHANGED fnVars
  /\ textChange' = NoCall
  /\ UNCHANGED newUpload
  /\ saveError' = NoError
  /\ act' = "handleAnalyze"
  /\ UNCHANGED <<pdfUrl, pageNumber, renderVars, blockMap, originalTextRef, focused,
                 ls, shown, focusSnap, nEdits>>

\* handleAnalyze after its 500 ms wait: getCurrentBlocks, then the analysis
\* request is sent
handleAnalyzeRead ==
  /\ hostOp.kind = "analyze"
  /\ hostOp.pc = "wait"
  /\ hostOp' = [hostOp EXCEPT !.pc = "net", !.readWith = ReadWith]
  /\ UNCHANGED remoteEdits
  /\ UNCHANGED fnVars
  /\ textChange' = NoCall
  /\ UNCHANGED newUpload
  /\ saveError' = NoError
  /\ act' = "handleAnalyzeRead"
  /\ UNCHANGED <<pdfUrl, pageNumber, savedBlocksMap, hostPending, renderVars, blockMap,
                 originalTextRef, focused, saveVars, apiVars, ls, shown,
                 focusSnap, nEdits, nRequests, lastRet>>

handleExport ==
  /\ focused = None
  /\ hostOp.kind = "none"
  /\ IF hostPending
       THEN CallSaveChanges("export")
       ELSE /\ hostOp' = [kind |-> "export", pc |-> "net", readWith |-> ReadWith]
            /\ UNCHANGED <<hostPending, savedBlocksMap, saveVars, apiVars, nRequests,
                           lastRet>>
  /\ UNCHANGED remoteEdits
  /\ UNCHANGED fnVars
  /\ textChange' = NoCall
  /\ UNCHANGED newUpload
  /\ saveError' = NoError
  /\ act' = "handleExport"
  /\ UNCHANGED <<pdfUrl, pageNumber, renderVars, blockMap, originalTextRef, focused,
                 ls, shown, focusSnap, nEdits>>

\* the analysis answer arrives, or the exported file is handed to the browser
handlerDone ==
  /\ hostOp.pc = "net"
  /\ hostOp' = NoOp
  /\ UNCHANGED remoteEdits
  /\ UNCHANGED fnVars
  /\ textChange' = NoCall
  /\ UNCHANGED newUpload
  /\ saveError' = NoError
  /\ act' = "handlerDone"
  /\ UNCHANGED <<pdfUrl, pageNumber, savedBlocksMap, hostPending, renderVars, blockMap,
                 originalTextRef, focused, saveVars, apiVars, ls, shown,
                 focusSnap, nEdits, nRequests, lastRet>>

(***************************************************************************)
(* The system                                                              *)
(***************************************************************************)
Next ==
  \/ \E b \in CanvasIds : handleFocus(b)
  \/ \E b \in CanvasIds, t \in TypeTexts : handleTextMutation(b, t)
  \/ \E b \in CanvasIds : handleBlur(b)
  \/ \E b \in CanvasIds : handleKeyDownEscape(b)
  \/ \E r \in 1..MaxRenders : renderPageLoaded(r)
  \/ \E r \in 1..MaxRenders : renderPageLoadFailed(r)
  \/ \E r \in 1..MaxRenders : renderPageGotPage(r)
  \/ \E r \in 1..MaxRenders : renderPagePainted(r)
  \/ \E r \in 1..MaxRenders : renderPageGotText(r)
  \/ \E p \in Pages : handlePageChange(p)
  \/ handleScaleChange
  \/ \E d \in Docs, clears \in BOOLEAN : handleFileUpload(d, clears)
  \/ autoSave
  \/ \E p \in RequestIds : fetchOk(p)
  \/ \E p \in RequestIds, status \in ErrorStatuses : fetchHttpError(p, status)
  \/ \E p \in RequestIds : fetchTimeout(p)
  \/ \E p \in RequestIds : fetchNetworkError(p)
  \/ \E p \in RequestIds : backoffDone(p)
  \/ handleSave
  \/ handleAnalyze
  \/ handleAnalyzeRead
  \/ handleExport
  \/ handlerDone

Spec == Init /\ [][Next]_vars

(***************************************************************************)
(* utils/pdfExport: exportToPDF as a function of its config                *)
(***************************************************************************)
MaxExportBlocks == 2
ExportIds == {"block-1-0", "block-1-1"}
ExportTexts == {"", "x", "x\ny"}
\* block.page of the blocks of a config, and the page counts of the documents
ExportPages == 0..1
PageCounts == 1..2

\* currentText.split('\n')
SplitLines(text) ==
  CASE text = "x\ny" -> <<"x", "y">>
    [] OTHER -> <<text>>

\* the blocks of an extraction result: a list of blocks with distinct ids
ExportBlockLists ==
  {blocks \in UNION {[1..n -> [id : ExportIds, page : ExportPages]] : n \in 0..MaxExportBlocks} :
     \A i, j \in DOMAIN blocks : blocks[i].id = blocks[j].id => i = j}

\* state.blocks: a Map from block id to the state of the block
ExportBlockStates ==
  UNION {[ids -> [isDirty : BOOLEAN, currentText : ExportTexts]] : ids \in SUBSET ExportIds}

\* a block with a state that is not dirty is painted as well
PaintsEveryState(block, blockStates, numPages) ==
  /\ block.id \in DOMAIN blockStates
  /\ block.page \in 0..(numPages - 1)

\* the two `continue` tests of the loop: the state exists and is dirty, and
\* pages[block.page] exists
Painted(block, blockStates, numPages) ==
  /\ block.id \in DOMAIN blockStates
  /\ blockStates[block.id].isDirty
  /\ block.page \in 0..(numPages - 1)

\* page.drawText for each line of the text
RECURSIVE DrawLines(_, _)
DrawLines(block, lines) ==
  IF lines = <<>> THEN <<>>
  ELSE <<[op |-> "drawText", page |-> block.page, block |-> block.id,
          text |-> Head(lines)]>>
       \o DrawLines(block, Tail(lines))

\* what the loop body draws for a block: the white rectangle over the place of
\* the block (named here by the block it is computed from), then the lines
DrawBlock(block, blockStates) ==
  <<[op |-> "drawRectangle", page |-> block.page, block |-> block.id, text |-> ""]>>
  \o DrawLines(block, SplitLines(blockStates[block.id].currentText))

\* the loop over config.blocks
RECURSIVE DrawBlocks(_, _, _)
DrawBlocks(blocks, blockStates, numPages) ==
  IF blocks = <<>> THEN <<>>
  ELSE (IF Painted(Head(blocks), blockStates, numPages)
          THEN DrawBlock(Head(blocks), blockStates)
          ELSE <<>>)
       \o DrawBlocks(Tail(blocks), blockStates, numPages)

ExportInit ==
  /\ CanvasInit
  /\ resolveRun = NoResolve
  /\ extractRun = NoExtract
  /\ keyRun = NoKeys
  /\ storeRun = NoSave
  /\ editorState = InitialState
  /\ wordStyle = NoWordStyle
  /\ fontRun = NoFont
  /\ \E blocks \in ExportBlockLists, blockStates \in ExportBlockStates,
        numPages \in PageCounts :
       exportRun = [pc |-> "ready", blocks |-> blocks, blockStates |-> blockStates,
                    numPages |-> numPages, drawn |-> <<>>]

exportToPDF ==
  /\ exportRun.pc = "ready"
  /\ exportRun' = [exportRun EXCEPT
                     !.pc = "done",
                     !.drawn = DrawBlocks(exportRun.blocks, exportRun.blockStates,
                                          exportRun.numPages)]
  /\ UNCHANGED <<hostVars, renderVars, blockMap, originalTextRef, focused, saveVars,
                 apiVars, ls, remoteEdits, shown, focusSnap, nEdits, nRequests,
                 lastRet, act, saveError, textChange, newUpload, resolveRun,
                 extractRun, keyRun,
                 storeRun, editorState, wordStyle,
                 fontRun>>

ExportNext == exportToPDF

ExportSpec == ExportInit /\ [][ExportNext]_vars

(***************************************************************************)
(* DocumentCanvas: getResolvedText and the extraction of a page, applied   *)
(* in any state of the overlay, of localStorage and of the saved blocks    *)
(***************************************************************************)
MaxItems == 2
MaxPasses == 2
\* the ids renderPage gives the items of page 1
ItemIds == {1} \X (0..(MaxItems - 1))

\* overlays, saved-blocks maps and storages of a session
OverlayStates ==
  UNION {[ids -> {[text |-> "x", isEdited |-> TRUE, dom |-> "x"]}] : ids \in SUBSET ItemIds}
SavedStates == UNION {[ids -> {"y"}] : ids \in SUBSET {<<1, 0>>}}
StorageStates ==
  {NoStorage}
  \cup {[hasEdits |-> TRUE, edits |-> edits, hasTimestamp |-> TRUE,
         hasPdfName |-> TRUE, pdfName |-> CurrentResume, dirtyFlag |-> flag] :
          edits \in [{<<1, 0>>} -> {"z", ""}],
          flag \in {"true", "false"}}

\* the session reaches another state of the overlay, localStorage and the
\* saved blocks
SetCanvasState ==
  /\ blockMap' \in OverlayStates
  /\ originalTextRef' = [id \in DOMAIN blockMap' |-> blockMap'[id].text]
  /\ savedBlocksMap' \in SavedStates
  /\ ls' \in StorageStates
  /\ <<blockMap', savedBlocksMap', ls'>> # <<blockMap, savedBlocksMap, ls>>
  /\ UNCHANGED <<pdfUrl, pageNumber, hostPending, hostOp, renderVars, focused,
                 saveVars, apiVars, remoteEdits, shown, focusSnap, nEdits,
                 nRequests, lastRet, act, saveError, textChange, newUpload,
                 exportRun, keyRun,
                 storeRun, editorState, wordStyle,
                 fontRun>>

\* a read that removes what it has read
RemovedByGet(store) == clearStoredEdits(store)

\* localStorage after getStoredEdits: localStorage.getItem leaves it as it is
StorageAfterGet(store) == store

\* getResolvedText(blockId, originalText) is called, for a block and a text
\* that stay the same until the state changes
resolveCall(blockId, originalText) ==
  /\ Len(resolveRun.results) < MaxPasses
  /\ resolveRun.results # <<>>
       => (blockId = resolveRun.blockId /\ originalText = resolveRun.originalText)
  /\ resolveRun' = [blockId |-> blockId, originalText |-> originalText,
                    results |-> Append(resolveRun.results,
                                       getResolvedText(blockId, originalText))]
  /\ ls' = IF blockId \in DOMAIN savedBlocksMap THEN ls ELSE StorageAfterGet(ls)
  /\ UNCHANGED <<hostVars, renderVars, blockMap, originalTextRef, focused, saveVars,
                 apiVars, remoteEdits, shown, focusSnap, nEdits, nRequests,
                 lastRet, act, saveError, textChange, newUpload, exportRun,
                 extractRun, keyRun,
                 storeRun, editorState, wordStyle,
                 fontRun>>

resolveSetState ==
  /\ SetCanvasState
  /\ resolveRun' = NoResolve
  /\ UNCHANGED <<extractRun, keyRun,
                 storeRun, editorState, wordStyle,
                 fontRun>>

ResolveInit ==
  /\ CanvasInit
  /\ exportRun = NoExport
  /\ resolveRun = NoResolve
  /\ extractRun = NoExtract
  /\ keyRun = NoKeys
  /\ storeRun = NoSave
  /\ editorState = InitialState
  /\ wordStyle = NoWordStyle
  /\ fontRun = NoFont

ResolveNext ==
  \/ resolveSetState
  \/ \E blockId \in ItemIds, originalText \in {"a", "b"} : resolveCall(blockId, originalText)

ResolveSpec == ResolveInit /\ [][ResolveNext]_vars

(***************************************************************************)
(* DocumentCanvas: the blocks renderPage builds from the text content      *)
(***************************************************************************)
Scales == 1..2
\* height of the page in PDF units: the viewport transform of scale s is
\* [s, 0, 0, -s, 0, s * PageHeight]
PageHeight == 3
\* text content items: some have no `str`, some only white space; transform is
\* [a, 0, 0, a, e, f] (upright text)
Items == [hasStr : BOOLEAN, str : {" ", "a"}, a : {1}, e : 0..1, f : {1}, width : {2}]
ItemLists == UNION {[1..n -> Items] : n \in 0..MaxItems}

\* str.trim()
Trim(str) == IF str = " " THEN "" ELSE str

\* pdfjsLib.Util.transform(viewport.transform, textItem.transform), for the
\* entries renderPage reads: tx[0], tx[1], tx[4], tx[5]
Transform(scale, textItem) ==
  [tx0 |-> scale * textItem.a, tx1 |-> 0, tx4 |-> scale * textItem.e,
   tx5 |-> scale * PageHeight - scale * textItem.f]

\* Math.sqrt(tx[0] * tx[0] + tx[1] * tx[1]) when tx[1] = 0 and tx[0] >= 0
FontSizeOf(tx) == tx.tx0

\* a block as wide as the text it shows
MakeBlockFitText(blockId, index, textItem, scale, textToUse) ==
  [id |-> blockId, text |-> textToUse, spanIndex |-> index,
   x |-> Transform(scale, textItem).tx4,
   y |-> Transform(scale, textItem).tx5 - FontSizeOf(Transform(scale, textItem)),
   width |-> IF textToUse = textItem.str THEN textItem.width * scale
             ELSE textItem.width * scale + 1,
   height |-> FontSizeOf(Transform(scale, textItem)),
   isEdited |-> (textToUse # textItem.str)]

\* the ResumeBlock of an item
MakeBlock(blockId, index, textItem, scale, textToUse) ==
  [id |-> blockId, text |-> textToUse, spanIndex |-> index,
   x |-> Transform(scale, textItem).tx4,
   y |-> Transform(scale, textItem).tx5 - FontSizeOf(Transform(scale, textItem)),
   width |-> textItem.width * scale,
   height |-> FontSizeOf(Transform(scale, textItem)),
   isEdited |-> (textToUse # textItem.str)]

\* textContent.items.forEach((item, index) => ...): the blocks of the items
\* from position k on (index = k - 1)
RECURSIVE ExtractFrom(_, _, _, _)
ExtractFrom(items, k, page, scale) ==
  IF k > Len(items) THEN <<>>
  ELSE LET textItem == items[k]
           blockId == <<page, k - 1>>
       IN (IF ~textItem.hasStr \/ Trim(textItem.str) = "" THEN <<>>
           ELSE <<MakeBlock(blockId, k - 1, textItem, scale,
                            TextToUse(blockId, textItem.str))>>)
          \o ExtractFrom(items, k + 1, page, scale)

extractedBlocks(items, page, scale) == ExtractFrom(items, 1, page, scale)

\* renderPage extracts the page again: the text layer is rebuilt from the
\* blocks
renderPageExtract ==
  /\ Len(extractRun.passes) < MaxPasses
  /\ LET blocks == extractedBlocks(extractRun.items, 1, extractRun.scale)
         ids == {blocks[k].id : k \in DOMAIN blocks}
         blockOf(id) == blocks[CHOOSE k \in DOMAIN blocks : blocks[k].id = id]
     IN /\ extractRun' = [extractRun EXCEPT !.passes = Append(@, blocks)]
        /\ blockMap' = [id \in ids |-> [text |-> blockOf(id).text,
                                        isEdited |-> blockOf(id).isEdited,
                                        dom |-> blockOf(id).text]]
        /\ originalTextRef' = [id \in ids |-> blockOf(id).text]
  /\ UNCHANGED <<hostVars, renderVars, focused, saveVars, apiVars, ls, remoteEdits,
                 shown, focusSnap, nEdits, nRequests, lastRet, act, saveError,
                 textChange, newUpload,
                 exportRun, resolveRun, keyRun,
                 storeRun, editorState, wordStyle,
                 fontRun>>

extractSetState ==
  /\ SetCanvasState
  /\ UNCHANGED <<resolveRun, extractRun, keyRun,
                 storeRun, editorState, wordStyle,
                 fontRun>>

ExtractInit ==
  /\ CanvasInit
  /\ exportRun = NoExport
  /\ resolveRun = NoResolve
  /\ \E items \in ItemLists, scale \in Scales :
       extractRun = [items |-> items, scale |-> scale, passes |-> <<>>]
  /\ keyRun = NoKeys
  /\ storeRun = NoSave
  /\ editorState = InitialState
  /\ wordStyle = NoWordStyle
  /\ fontRun = NoFont

ExtractNext ==
  \/ extractSetState
  \/ renderPageExtract

ExtractSpec == ExtractInit /\ [][ExtractNext]_vars

(***************************************************************************)
(* Progress: every request on the wire is answered, fails or times out,    *)
(* and every backoff timer fires                                           *)
(***************************************************************************)
NetworkResponds ==
  \E p \in RequestIds :
    \/ fetchOk(p)
    \/ \E status \in ErrorStatuses : fetchHttpError(p, status)
    \/ fetchTimeout(p)
    \/ fetchNetworkError(p)

TimerFires == \E p \in RequestIds : backoffDone(p)

LiveSpec == Spec /\ WF_vars(NetworkResponds) /\ WF_vars(TimerFires)

(***************************************************************************)
(* services/editorApi: getRequestKey as a function of the blocks.  Strings *)
(* are sequences of characters                                             *)
(***************************************************************************)
MaxKeyBlocks == 2
\* ids and texts with and without the characters getRequestKey joins with
KeyIds == {<<"a">>, <<"a", ":">>}
KeyTexts == {<<>>, <<"a">>, <<":", "a">>, <<"a", "|", "a", ":">>}
KeyBlocks == [blockId : KeyIds, newText : KeyTexts]
KeyPayloads == UNION {[1..n -> KeyBlocks] : n \in 1..MaxKeyBlocks}

\* blocks.map(b => `${b.blockId}:${b.newText}`).join('|')
RECURSIVE JoinKeys(_)
JoinKeys(blocks) ==
  IF blocks = <<>> THEN <<>>
  ELSE Head(blocks).blockId \o <<":">> \o Head(blocks).newText
       \o (IF Tail(blocks) = <<>> THEN <<>> ELSE <<"|">> \o JoinKeys(Tail(blocks)))

getRequestKeyString(blocks) == JoinKeys(blocks)

KeyInit ==
  /\ CanvasInit
  /\ exportRun = NoExport
  /\ resolveRun = NoResolve
  /\ extractRun = NoExtract
  /\ storeRun = NoSave
  /\ editorState = InitialState
  /\ wordStyle = NoWordStyle
  /\ fontRun = NoFont
  /\ \E first \in KeyPayloads, second \in KeyPayloads :
       keyRun = [first |-> first, second |-> second, keys |-> <<>>]

\* two concurrent updateResumeBlocks calls compute their request keys
updateResumeBlocksKeys ==
  /\ keyRun.keys = <<>>
  /\ keyRun' = [keyRun EXCEPT !.keys = <<getRequestKeyString(keyRun.first),
                                         getRequestKeyString(keyRun.second)>>]
  /\ UNCHANGED <<hostVars, renderVars, blockMap, originalTextRef, focused, saveVars,
                 apiVars, ls, remoteEdits, shown, focusSnap, nEdits, nRequests,
                 lastRet, act, saveError, textChange, newUpload, exportRun, resolveRun,
                 extractRun, storeRun,
                 editorState,
                 wordStyle,
                 fontRun>>

KeyNext == updateResumeBlocksKeys

KeySpec == KeyInit /\ [][KeyNext]_vars

(***************************************************************************)
(* editorStorage.saveEditsToStorage applied to any store                   *)
(***************************************************************************)
MaxUpdates == 2

\* the block ids the store and the updates name
StoreIds == {<<1, 0>>, <<2, 0>>}
\* values of the PDF_NAME key and of the pdfName argument
StoreNames == {"", CurrentResume, "other"}
StoreTexts == {"", "x", "y"}

\* what the four keys can hold before the call
StoreStates ==
  {NoStorage}
  \cup {[hasEdits |-> TRUE, edits |-> edits, hasTimestamp |-> stamp,
         hasPdfName |-> TRUE, pdfName |-> name, dirtyFlag |-> flag] :
          edits \in UNION {[ids -> {"", "x"}] : ids \in SUBSET StoreIds},
          stamp \in BOOLEAN, name \in StoreNames, flag \in {"true", "false"}}

StoreUpdate == [blockId : StoreIds, oldText : {"a"}, newText : StoreTexts]
StoreUpdates == UNION {[1..n -> StoreUpdate] : n \in 0..MaxUpdates}

StoreInit ==
  /\ CanvasInit
  /\ exportRun = NoExport
  /\ resolveRun = NoResolve
  /\ extractRun = NoExtract
  /\ keyRun = NoKeys
  /\ editorState = InitialState
  /\ wordStyle = NoWordStyle
  /\ fontRun = NoFont
  /\ \E store \in StoreStates, updates \in StoreUpdates, pdfName \in StoreNames,
        markDirty \in BOOLEAN :
       storeRun = [called |-> FALSE, before |-> store, updates |-> updates,
                   pdfName |-> pdfName, markDirty |-> markDirty, after |-> store]

\* the call saveEditsToStorage(updates, pdfName, markDirty)
saveEditsToStorageCall ==
  /\ ~storeRun.called
  /\ "before" \in DOMAIN storeRun
  /\ storeRun' = [storeRun EXCEPT
                    !.called = TRUE,
                    !.after = saveEditsToStorage(storeRun.before, storeRun.updates,
                                                 storeRun.pdfName, storeRun.markDirty)]
  /\ UNCHANGED <<hostVars, renderVars, blockMap, originalTextRef, focused, saveVars,
                 apiVars, ls, remoteEdits, shown, focusSnap, nEdits, nRequests,
                 lastRet, act, saveError, textChange, newUpload, exportRun, resolveRun,
                 extractRun, keyRun, editorState, wordStyle, fontRun>>

StoreNext == saveEditsToStorageCall

StoreSpec == StoreInit /\ [][StoreNext]_vars

(***************************************************************************)
(* useEditorState (editorReducer) and WordStyleEditor (block mapping)      *)
(***************************************************************************)
\* texts are sequences of characters here: the mapping compares them
OrigTexts == {<<"a">>, <<"a", "b">>}
TypedTexts == {<<"x">>, <<"A", " ">>}
EditorTexts == OrigTexts \cup TypedTexts

\* extraction results of the backend: two blocks on page 0, one on page 1
ExtractionResults ==
  {<<[id |-> "e0", page |-> 0, text |-> t0], [id |-> "e1", page |-> 0, text |-> t1],
     [id |-> "e2", page |-> 1, text |-> t2]>> : t0 \in OrigTexts, t1 \in OrigTexts,
                                                 t2 \in {<<"a">>}}
\* ids a dispatch may name: those of the blocks, and one that no block has
DispatchIds == {"e0", "e1", "e2", "e9"}
EditorPages == 0..1

\* an update that marks the block dirty whatever the text is
AlwaysDirty(existingBlock, text) ==
  [existingBlock EXCEPT !.currentText = text, !.isDirty = TRUE]

\* case 'UPDATE_BLOCK_TEXT': the new state of the block
UpdatedBlock(existingBlock, text) ==
  [existingBlock EXCEPT !.currentText = text,
                        !.isDirty = (text # existingBlock.originalText)]

editorReducer(state, action) ==
  CASE action.type = "SET_EXTRACTION_RESULT" ->
         [state EXCEPT
            !.extractionResult = action.payload,
            !.blocks = [id \in {action.payload[i].id : i \in DOMAIN action.payload} |->
                          LET block == action.payload[
                                CHOOSE i \in DOMAIN action.payload :
                                  /\ action.payload[i].id = id
                                  /\ \A j \in DOMAIN action.payload :
                                       action.payload[j].id = id => j <= i]
                          IN [id |-> id, originalText |-> block.text,
                              currentText |-> block.text, isEditing |-> FALSE,
                              isDirty |-> FALSE]]]
    [] action.type = "UPDATE_BLOCK_TEXT" ->
         IF action.payload.id \notin DOMAIN state.blocks THEN state
         ELSE [state EXCEPT !.blocks[action.payload.id] =
                 UpdatedBlock(state.blocks[action.payload.id], action.payload.text)]
    [] action.type = "SET_BLOCK_EDITING" ->
         IF action.payload.id \notin DOMAIN state.blocks THEN state
         ELSE [state EXCEPT !.blocks[action.payload.id].isEditing =
                 action.payload.isEditing]
    [] action.type = "SET_PAGE" -> [state EXCEPT !.currentPage = action.payload]
    [] action.type = "RESET" -> InitialState
    [] OTHER -> state

\* String.prototype.trim, toLowerCase and includes
RECURSIVE TrimStart(_)
TrimStart(t) == IF t # <<>> /\ Head(t) = " " THEN TrimStart(Tail(t)) ELSE t
RECURSIVE TrimEnd(_)
TrimEnd(t) ==
  IF t # <<>> /\ t[Len(t)] = " " THEN TrimEnd(SubSeq(t, 1, Len(t) - 1)) ELSE t
TrimText(t) == TrimEnd(TrimStart(t))
UpperCase ==
  <<"A", "B", "C", "D", "E", "F", "G", "H", "I", "J", "K", "L", "M", "N",
    "O", "P", "Q", "R", "S", "T", "U", "V", "W", "X", "Y", "Z">>
LowerCase ==
  <<"a", "b", "c", "d", "e", "f", "g", "h", "i", "j", "k", "l", "m", "n",
    "o", "p", "q", "r", "s", "t", "u", "v", "w", "x", "y", "z">>
LowerChar(c) ==
  IF \E i \in DOMAIN UpperCase : UpperCase[i] = c
    THEN LowerCase[CHOOSE i \in DOMAIN UpperCase : UpperCase[i] = c] ELSE c
ToLowerCase(t) == [i \in DOMAIN t |-> LowerChar(t[i])]
Includes(t, part) ==
  \E i \in 0..(Len(t) - Len(part)) : SubSeq(t, i + 1, i + Len(part)) = part

Min3(a, b, c) ==
  IF a <= b /\ a <= c THEN a ELSE IF b <= c THEN b ELSE c

RECURSIVE levenshteinDistance(_, _)
levenshteinDistance(str1, str2) ==
  IF str1 = <<>> THEN Len(str2)
  ELSE IF str2 = <<>> THEN Len(str1)
  ELSE IF Head(str1) = Head(str2) THEN levenshteinDistance(Tail(str1), Tail(str2))
  ELSE Min3(levenshteinDistance(Tail(str1), Tail(str2)) + 1,
            levenshteinDistance(str1, Tail(str2)) + 1,
            levenshteinDistance(Tail(str1), str2) + 1)

\* calculateTextSimilarity(text1, text2) > 0.8, in integers
SimilarityAbove80(text1, text2) ==
  IF text1 = text2 THEN TRUE
  ELSE IF text1 = <<>> \/ text2 = <<>> THEN FALSE
  ELSE LET longer == IF Len(text1) > Len(text2) THEN text1 ELSE text2
           shorter == IF Len(text1) > Len(text2) THEN text2 ELSE text1
       IN (Len(longer) - levenshteinDistance(longer, shorter)) * 10 > 8 * Len(longer)

\* the predicate of handleBlocksExtracted's find
TextsMatch(canvasBlockText, exBlockText) ==
  LET canvasText == ToLowerCase(TrimText(canvasBlockText))
      exText == ToLowerCase(TrimText(exBlockText))
  IN \/ canvasText = exText
     \/ Includes(canvasText, exText)
     \/ Includes(exText, canvasText)
     \/ SimilarityAbove80(canvasText, exText)

\* extractionResult.blocks.filter(block => block.page === currentPage)
PageBlocks(blocks, page) == SelectSeq(blocks, LAMBDA block : block.page = page)

\* Array.prototype.find on the ids: the first block that matches, or "none"
RECURSIVE FindMatching(_, _)
FindMatching(blocks, canvasBlockText) ==
  IF blocks = <<>> THEN "none"
  ELSE IF TextsMatch(canvasBlockText, Head(blocks).text) THEN Head(blocks).id
  ELSE FindMatching(Tail(blocks), canvasBlockText)

\* handleTextChange's fallback find: same page, block.text.trim() === oldText.trim()
RECURSIVE FindByOldText(_, _, _)
FindByOldText(blocks, page, oldText) ==
  IF blocks = <<>> THEN "none"
  ELSE IF Head(blocks).page = page /\ TrimText(Head(blocks).text) = TrimText(oldText)
         THEN Head(blocks).id
  ELSE FindByOldText(Tail(blocks), page, oldText)

\* the canvas' blocks of a document: `block-${pageNumber}-${index}` for the
\* index-th text item of page pageNumber, one text item per extraction block
CanvasTexts(blocks) ==
  [c \in UNION {{<<page + 1, i - 1>> : i \in DOMAIN PageBlocks(blocks, page)} :
                  page \in EditorPages} |->
     PageBlocks(blocks, c[1] - 1)[c[2] + 1].text]

\* the extraction block of the same page and the same fragment as canvas block c
CorrespondingBlock(blocks, c) == PageBlocks(blocks, c[1] - 1)[c[2] + 1]

EditorIdle ==
  /\ CanvasInit
  /\ exportRun = NoExport
  /\ resolveRun = NoResolve
  /\ extractRun = NoExtract
  /\ keyRun = NoKeys
  /\ storeRun = NoSave

EditorInit ==
  /\ EditorIdle
  /\ editorState = InitialState
  /\ wordStyle = NoWordStyle
  /\ fontRun = NoFont

EditorFrame ==
  UNCHANGED <<hostVars, renderVars, blockMap, originalTextRef, focused, saveVars,
              apiVars, ls, remoteEdits, shown, focusSnap, nEdits, nRequests,
              lastRet, act, saveError, textChange, newUpload, exportRun, resolveRun,
              extractRun, keyRun, storeRun, fontRun>>

\* handleFileUpload: setExtractionResult(result); the editor mounts on the result
setExtractionResult(result) ==
  /\ editorState' = editorReducer(editorState,
                                  [type |-> "SET_EXTRACTION_RESULT", payload |-> result])
  /\ wordStyle' = [canvas |-> CanvasTexts(result), extractedBlocksRef |-> <<>>,
                   blockMappingRef |-> <<>>, commit |-> NoCommit]
  /\ EditorFrame

updateBlockText(id, text) ==
  /\ editorState' = editorReducer(editorState,
                      [type |-> "UPDATE_BLOCK_TEXT", payload |-> [id |-> id, text |-> text]])
  /\ wordStyle' = [wordStyle EXCEPT !.commit = NoCommit]
  /\ EditorFrame

setBlockEditing(id, isEditing) ==
  /\ editorState' = editorReducer(editorState,
                      [type |-> "SET_BLOCK_EDITING",
                       payload |-> [id |-> id, isEditing |-> isEditing]])
  /\ wordStyle' = [wordStyle EXCEPT !.commit = NoCommit]
  /\ EditorFrame

\* handlePageChange: setPage; the canvas has not reported the new page yet
setPage(page) ==
  /\ editorState.extractionResult # <<>>
  /\ page # editorState.currentPage
  /\ editorState' = editorReducer(editorState, [type |-> "SET_PAGE", payload |-> page])
  /\ wordStyle' = [wordStyle EXCEPT !.extractedBlocksRef = <<>>, !.commit = NoCommit]
  /\ EditorFrame

reset ==
  /\ editorState' = editorReducer(editorState, [type |-> "RESET"])
  /\ wordStyle' = NoWordStyle
  /\ EditorFrame

\* the canvas has rendered page currentPage + 1 and reports its blocks, each
\* with the text it shows
handleBlocksExtracted ==
  /\ editorState.extractionResult # <<>>
  /\ LET blocks == [c \in {c \in DOMAIN wordStyle.canvas :
                             c[1] = editorState.currentPage + 1} |->
                      wordStyle.canvas[c]]
         currentPageExtractedBlocks ==
           PageBlocks(editorState.extractionResult, editorState.currentPage)
         matched == [c \in DOMAIN blocks |->
                       FindMatching(currentPageExtractedBlocks, blocks[c])]
     IN wordStyle' = [wordStyle EXCEPT
                        !.extractedBlocksRef = blocks,
                        !.blockMappingRef = [c \in {c \in DOMAIN blocks :
                                                     matched[c] # "none"} |-> matched[c]],
                        !.commit = NoCommit]
  /\ UNCHANGED editorState
  /\ EditorFrame

\* the canvas commits newText for its block c (handleBlur: onTextChange), and
\* WordStyleEditor hands it to the page's handleBlockTextChange
handleTextChange(c, newText) ==
  /\ c \in DOMAIN wordStyle.extractedBlocksRef
  /\ c[1] = editorState.currentPage + 1
  /\ newText # wordStyle.canvas[c]
  /\ LET oldText == wordStyle.canvas[c]
         mapped == IF c \in DOMAIN wordStyle.blockMappingRef
                     THEN wordStyle.blockMappingRef[c] ELSE "none"
         matchingBlock == FindByOldText(editorState.extractionResult,
                                        editorState.currentPage, oldText)
         committed == [wordStyle EXCEPT !.canvas[c] = newText,
                                        !.commit = [block |-> c, text |-> newText]]
     IN IF mapped # "none"
          THEN /\ editorState' = editorReducer(editorState,
                     [type |-> "UPDATE_BLOCK_TEXT",
                      payload |-> [id |-> mapped, text |-> newText]])
               /\ wordStyle' = committed
          ELSE IF matchingBlock # "none"
          THEN /\ editorState' = editorReducer(editorState,
                     [type |-> "UPDATE_BLOCK_TEXT",
                      payload |-> [id |-> matchingBlock, text |-> newText]])
               /\ wordStyle' = [committed EXCEPT
                                  !.blockMappingRef = MapSet(@, c, matchingBlock)]
          ELSE /\ UNCHANGED editorState
               /\ wordStyle' = committed
  /\ EditorFrame

\* the dispatches of the reducer, with any payload
ReducerNext ==
  \/ \E result \in ExtractionResults : setExtractionResult(result)
  \/ \E id \in DispatchIds, text \in EditorTexts : updateBlockText(id, text)
  \/ \E id \in DispatchIds, isEditing \in BOOLEAN : setBlockEditing(id, isEditing)
  \/ \E page \in EditorPages : setPage(page)
  \/ reset

ReducerSpec == EditorInit /\ [][ReducerNext]_vars

\* the editor as the page wires it: uploads, page changes, renders, commits
EditorNext ==
  \/ \E result \in ExtractionResults : setExtractionResult(result)
  \/ \E page \in EditorPages : setPage(page)
  \/ handleBlocksExtracted
  \/ \E c \in CanvasIds \cup {<<1, 1>>}, newText \in EditorTexts :
       handleTextChange(c, newText)

EditorSpec == EditorInit /\ [][EditorNext]_vars

(***************************************************************************)
(* fontMapper: detectFontCategory, detectFontWeight, detectFontStyle       *)
(***************************************************************************)
MaxParts == 3

SERIF_PATTERNS ==
  {<<"t", "i", "m", "e", "s">>, <<"g", "e", "o", "r", "g", "i", "a">>,
   <<"g", "a", "r", "a", "m", "o", "n", "d">>,
   <<"p", "a", "l", "a", "t", "i", "n", "o">>,
   <<"c", "a", "m", "b", "r", "i", "a">>, <<"b", "o", "o", "k">>,
   <<"r", "o", "m", "a", "n">>, <<"s", "e", "r", "i", "f">>,
   <<"m", "i", "n", "i", "o", "n">>, <<"c", "e", "n", "t", "u", "r", "y">>,
   <<"c", "a", "s", "l", "o", "n">>,
   <<"b", "a", "s", "k", "e", "r", "v", "i", "l", "l", "e">>,
   <<"d", "i", "d", "o", "t">>, <<"b", "o", "d", "o", "n", "i">>,
   <<"r", "o", "c", "k", "w", "e", "l", "l">>,
   <<"c", "l", "a", "r", "e", "n", "d", "o", "n">>,
   <<"c", "h", "a", "r", "t", "e", "r">>,
   <<"m", "e", "r", "r", "i", "w", "e", "a", "t", "h", "e", "r">>}

SANS_SERIF_PATTERNS ==
  {<<"a", "r", "i", "a", "l">>,
   <<"h", "e", "l", "v", "e", "t", "i", "c", "a">>,
   <<"v", "e", "r", "d", "a", "n", "a">>, <<"t", "a", "h", "o", "m", "a">>,
   <<"c", "a", "l", "i", "b", "r", "i">>, <<"s", "a", "n", "s">>,
   <<"g", "o", "t", "h", "i", "c">>,
   <<"g", "r", "o", "t", "e", "s", "q", "u", "e">>,
   <<"f", "u", "t", "u", "r", "a">>, <<"a", "v", "e", "n", "i", "r">>,
   <<"r", "o", "b", "o", "t", "o">>,
   <<"o", "p", "e", "n", " ", "s", "a", "n", "s">>, <<"l", "a", "t", "o">>,
   <<"m", "o", "n", "t", "s", "e", "r", "r", "a", "t">>,
   <<"p", "r", "o", "x", "i", "m", "a">>,
   <<"s", "o", "u", "r", "c", "e", " ", "s", "a", "n", "s">>,
   <<"n", "u", "n", "i", "t", "o">>, <<"i", "n", "t", "e", "r">>,
   <<"s", "e", "g", "o", "e">>,
   <<"t", "r", "e", "b", "u", "c", "h", "e", "t">>,
   <<"l", "u", "c", "i", "d", "a">>, <<"g", "i", "l", "l">>,
   <<"o", "p", "t", "i", "m", "a">>, <<"c", "a", "n", "d", "a", "r", "a">>}

MONOSPACE_PATTERNS ==
  {<<"m", "o", "n", "o">>, <<"c", "o", "u", "r", "i", "e", "r">>,
   <<"c", "o", "n", "s", "o", "l", "a", "s">>, <<"m", "e", "n", "l", "o">>,
   <<"c", "o", "d", "e">>,
   <<"t", "y", "p", "e", "w", "r", "i", "t", "e", "r">>,
   <<"s", "o", "u", "r", "c", "e", " ", "c", "o", "d", "e">>,
   <<"f", "i", "r", "a", " ", "c", "o", "d", "e">>,
   <<"j", "e", "t", "b", "r", "a", "i", "n", "s">>,
   <<"i", "n", "c", "o", "n", "s", "o", "l", "a", "t", "a">>}

BOLD_PATTERNS ==
  {<<"b", "o", "l", "d">>, <<"h", "e", "a", "v", "y">>,
   <<"b", "l", "a", "c", "k">>, <<"s", "e", "m", "i", "b", "o", "l", "d">>,
   <<"d", "e", "m", "i">>, <<"m", "e", "d", "i", "u", "m">>}

ITALIC_PATTERNS ==
  {<<"i", "t", "a", "l", "i", "c">>, <<"o", "b", "l", "i", "q", "u", "e">>,
   <<"s", "l", "a", "n", "t">>, <<"i", "n", "c", "l", "i", "n", "e", "d">>}

LIGHT_PATTERNS ==
  {<<"l", "i", "g", "h", "t">>, <<"t", "h", "i", "n">>,
   <<"h", "a", "i", "r", "l", "i", "n", "e">>,
   <<"u", "l", "t", "r", "a", "l", "i", "g", "h", "t">>}

\* PATTERNS.some(pattern => lowerName.includes(pattern))
SomeIncluded(patterns, lowerName) == \E pattern \in patterns : Includes(lowerName, pattern)

Digits == {"0", "1", "2", "3", "4", "5", "6", "7", "8", "9"}
AllDigits(t) == t # <<>> /\ \A i \in DOMAIN t : t[i] \in Digits

\* fontName.startsWith('g_')
StartsWithG(fontName) == Len(fontName) >= 2 /\ fontName[1] = "g" /\ fontName[2] = "_"

\* /^[a-z]_d\d+_f\d+$/i.test(fontName)
MatchesGeneric(fontName) ==
  /\ Len(fontName) >= 7
  /\ \E i \in DOMAIN LowerCase : LowerCase[i] = LowerChar(fontName[1])
  /\ fontName[2] = "_"
  /\ LowerChar(fontName[3]) = "d"
  /\ \E k \in 4..(Len(fontName) - 3) :
       /\ AllDigits(SubSeq(fontName, 4, k))
       /\ fontName[k + 1] = "_"
       /\ LowerChar(fontName[k + 2]) = "f"
       /\ AllDigits(SubSeq(fontName, k + 3, Len(fontName)))

\* a category that tests the serif list before the sans-serif list
SerifBeforeSans(fontName) ==
  LET lowerName == ToLowerCase(fontName)
  IN IF SomeIncluded(MONOSPACE_PATTERNS, lowerName) THEN "monospace"
     ELSE IF SomeIncluded(SERIF_PATTERNS, lowerName) THEN "serif"
     ELSE IF SomeIncluded(SANS_SERIF_PATTERNS, lowerName) THEN "sans-serif"
     ELSE IF StartsWithG(fontName) \/ MatchesGeneric(fontName) THEN "serif"
     ELSE "sans-serif"

detectFontCategory(fontName) ==
  LET lowerName == ToLowerCase(fontName)
  IN IF SomeIncluded(MONOSPACE_PATTERNS, lowerName) THEN "monospace"
     ELSE IF SomeIncluded(SANS_SERIF_PATTERNS, lowerName) THEN "sans-serif"
     ELSE IF SomeIncluded(SERIF_PATTERNS, lowerName) THEN "serif"
     ELSE IF StartsWithG(fontName) \/ MatchesGeneric(fontName) THEN "serif"
     ELSE "sans-serif"

detectFontWeight(fontName) ==
  LET lowerName == ToLowerCase(fontName)
  IN IF SomeIncluded(BOLD_PATTERNS, lowerName) THEN "bold"
     ELSE IF SomeIncluded(LIGHT_PATTERNS, lowerName) THEN "light"
     ELSE "normal"

detectFontStyle(fontName) ==
  LET lowerName == ToLowerCase(fontName)
  IN IF SomeIncluded(ITALIC_PATTERNS, lowerName) THEN "italic" ELSE "normal"

\* parsePdfFont (the fields the classification decides)
parsePdfFont(pdfJsFontName) ==
  [category |-> detectFontCategory(pdfJsFontName),
   weight |-> detectFontWeight(pdfJsFontName),
   style |-> detectFontStyle(pdfJsFontName),
   originalName |-> pdfJsFontName]

\* the pieces font names are put together from
FontNameParts ==
  {<<"T", "i", "m", "e", "s">>, <<"A", "r", "i", "a", "l">>,
   <<"C", "o", "u", "r", "i", "e", "r">>, <<"S", "a", "n", "s">>,
   <<"B", "o", "l", "d">>, <<"L", "i", "g", "h", "t">>,
   <<"I", "t", "a", "l", "i", "c">>, <<"g", "_">>,
   <<"d", "0", "_", "f", "1">>, <<"F", "_", "d", "1", "_", "f", "2">>,
   <<"X", "y">>}

RECURSIVE Concat(_)
Concat(parts) == IF parts = <<>> THEN <<>> ELSE Head(parts) \o Concat(Tail(parts))

FontNames == {Concat(parts) : parts \in UNION {[1..n -> FontNameParts] : n \in 0..MaxParts}}

FontInit ==
  /\ EditorIdle
  /\ editorState = InitialState
  /\ wordStyle = NoWordStyle
  /\ \E pdfJsFontName \in FontNames :
       fontRun = [fontName |-> pdfJsFontName, fontCache |-> <<>>, results |-> <<>>]

\* getFontInfo(pdfJsFontName): from fontCache, else parsed and cached
getFontInfo ==
  /\ Len(fontRun.results) < MaxPasses
  /\ LET pdfJsFontName == fontRun.fontName
         fontInfo == IF pdfJsFontName \in DOMAIN fontRun.fontCache
                       THEN fontRun.fontCache[pdfJsFontName]
                       ELSE parsePdfFont(pdfJsFontName)
     IN fontRun' = [fontRun EXCEPT
                      !.fontCache = MapSet(@, pdfJsFontName, fontInfo),
                      !.results = Append(@, fontInfo)]
  /\ UNCHANGED <<hostVars, renderVars, blockMap, originalTextRef, focused, saveVars,
                 apiVars, ls, remoteEdits, shown, focusSnap, nEdits, nRequests,
                 lastRet, act, saveError, textChange, newUpload, exportRun, resolveRun,
                 extractRun, keyRun, storeRun, editorState, wordStyle>>

FontNext == getFontInfo

FontSpec == FontInit /\ [][FontNext]_vars

(***************************************************************************)
(* Properties                                                              *)
(***************************************************************************)
\* the dirty entry localStorage holds for a block, or "" when it holds none
LocalDirtyText(id) ==
  LET storedEdits == getStoredEdits(ls)
  IN IF storedEdits.ok /\ storedEdits.isDirty /\ id \in DOMAIN storedEdits.edits
       THEN storedEdits.edits[id] ELSE ""

\* C1: when localStorage holds a dirty entry for a block and the texts the
\* backend confirmed (the updatedBlocks map) hold another edit of it, the text
\* resolved for the block - what renderPage gives the block when it extracts it
\* anew - is the local one.
C1_LocalDirtyWins ==
  \A id \in CanvasIds :
    (/\ LocalDirtyText(id) # ""
     /\ id \in DOMAIN savedBlocksMap
     /\ ExtractionId(id) \in DOMAIN remoteEdits
     /\ savedBlocksMap[id] = remoteEdits[ExtractionId(id)]
     /\ savedBlocksMap[id] # LocalDirtyText(id))
    => getResolvedText(id, PdfText(pdfUrl, id[1], id[2])) = LocalDirtyText(id)

\* C2: two saves queued for one block before either completes make one request,
\* and it carries the latest text: a queued save leaves the queue only when the
\* flush that ends awaited a request with the text of that save.
C2_LatestTextRequested ==
  [][\A b \in DOMAIN pendingSaves :
       b \notin DOMAIN pendingSaves'
       => (b \in DOMAIN flight /\ flight[b].newText = pendingSaves[b].newText)]_vars

\* C3: saveChanges returns true exactly when no pending save remains at its
\* return (a flush that is running has pending saves), and false otherwise.
C3_FlushResult ==
  lastRet.caller # "none" => (lastRet.ret <=> ~lastRet.pendingLeft)

\* C4: when a flush ends, every block whose save succeeded has its pending entry
\* cleared, also when the save of another block of the same flush failed.
C4_SucceededCleared ==
  [][(isSavingRef /\ ~isSavingRef')
     => \A b \in DOMAIN flight :
          (/\ flight[b].st = "ok"
           /\ b \in DOMAIN pendingSaves
           /\ pendingSaves[b].newText = flight[b].newText)
          => b \notin DOMAIN pendingSaves']_vars

\* C5: after the backoff that follows a network failure the request is sent a
\* second time: once the backoff timer has fired, a request is on the wire that
\* is the second POST of its updateResumeBlocks call.
C5_RetryIsSent ==
  act = "backoffDone"
  => \E p \in DOMAIN promises : promises[p].pc = "fetch" /\ promises[p].fetches = 2

\* C6: a timeout is retried once: a save is given up because of a timeout only
\* when the request that timed out was already the retry.
C6_TimeoutRetried ==
  [][act' = "fetchTimeout"
     => \A p \in (DOMAIN promises) \ (DOMAIN promises') : promises[p].fetches = 2]_vars

\* C7: a render that is no longer the latest one when it ends changes nothing of
\* what is displayed: the blocks (so what getCurrentBlocks returns), the spans
\* and their texts stay as they are, and onBlocksExtracted is not called.
C7_StaleRenderDiscarded ==
  [][\A r \in DOMAIN renders :
       (r \notin DOMAIN renders' /\ r # renderIdRef')
       => (blockMap' = blockMap /\ originalTextRef' = originalTextRef /\ shown' = shown)]_vars

\* C7, witness: a superseded render got the text content of its page and was
\* discarded, while the blocks of an earlier render are displayed
C7_Witness ==
  act = "renderPageDiscarded" /\ blockMap # EmptyMap

\* C8: Escape puts the text the span had at focus back, ends the editing with
\* the block as it was at focus, and writes nothing to localStorage and queues
\* no save.
C8_EscapeReverts ==
  [][act' \in {"handleKeyDownEscape", "handleKeyDownEscapeTyped"}
     => (/\ focused' = None
         /\ blockMap'[focused] = focusSnap
         /\ blockMap' = MapSet(blockMap, focused, focusSnap)
         /\ originalTextRef'[focused] = focusSnap.dom
         /\ ls' = ls
         /\ pendingSaves' = pendingSaves
         /\ hasPendingState' = hasPendingState
         /\ hostPending' = hostPending
         /\ apiVars' = apiVars)]_vars

\* C8, witness: Escape was pressed in a span whose text had been changed since
\* the focus, on a page with a block that had been edited before
C8_Witness ==
  /\ act = "handleKeyDownEscapeTyped"
  /\ \E b \in DOMAIN blockMap : blockMap[b].isEdited

\* C9: export and analysis read the blocks only when a flush has completed and
\* no save is pending or in flight.
C9_ReadAfterCleanFlush ==
  hostOp.pc = "net" => hostOp.readWith = "clean"

\* C10: after a switch of page or document no block of the new page displays a
\* text taken from the spans of the previous one: each displays the text resolved
\* from the saved-blocks map, localStorage and the document.
C10_NoCarryOver ==
  [][\A r \in DOMAIN renders :
       (r \notin DOMAIN renders' /\ shown' # shown)
       => \A id \in DOMAIN blockMap' :
            blockMap'[id].text =
              getResolvedText(id, PdfText(renders[r].pdf, renders[r].page, id[2]))]_vars

\* the id the backend knows the entry of localStorage under: the entries
\* handleBlur writes have canvas ids, the ones updateResumeBlocks writes have
\* the ids of the request
RemoteId(id) == IF id[1] = 0 THEN id ELSE ExtractionId(id)

\* the update endpoint has accepted this text for the block
Confirmed(id, text) ==
  RemoteId(id) \in DOMAIN remoteEdits /\ remoteEdits[RemoteId(id)] = text

\* C11: whenever localStorage holds a text for a block that the backend has not
\* confirmed, its dirty flag is true.
C11_UnconfirmedIsDirty ==
  LET storedEdits == getStoredEdits(ls)
  IN storedEdits.ok
     => \A id \in DOMAIN storedEdits.edits :
          ~Confirmed(id, storedEdits.edits[id]) => storedEdits.isDirty

\* the steps in which a save fails
FailureActs == {"fetchHttpError", "fetchTimeout", "fetchNetworkError"}

\* C12: a failed save leaves the blocks untouched: the live text, the committed
\* text and the edited flag of every block, the rollback snapshots and the focus
\* are what they were, and the queued saves are all kept.
C12_FailureKeepsBlocks ==
  [][act' \in FailureActs
     => (/\ blockMap' = blockMap
         /\ originalTextRef' = originalTextRef
         /\ focused' = focused
         /\ pendingSaves' = pendingSaves
         /\ hasPendingState' = hasPendingState)]_vars

\* C12, witness: a flush has just failed while a block that was edited before
\* the flush has another text typed into its span
C12_Witness ==
  /\ act \in FailureActs
  /\ lastRet.caller # "none" /\ ~lastRet.ret
  /\ ~isSavingRef
  /\ \E b \in DOMAIN blockMap :
       blockMap[b].isEdited /\ focused = b /\ blockMap[b].dom # blockMap[b].text

\* the saves of the running flush whose block has not been committed again
\* since the flush started, and whose entry localStorage still holds
FlushedAsCommitted ==
  {b \in DOMAIN flight :
     /\ b \in DOMAIN pendingSaves
     /\ pendingSaves[b].newText = flight[b].newText
     /\ getStoredEdits(ls).ok
     /\ b \in DOMAIN getStoredEdits(ls).edits}

C14_LiveTextKept ==
  [][act' = "renderPageReextracted"
     => \A id \in DOMAIN blockMap :
          /\ id \in DOMAIN blockMap'
          /\ blockMap'[id].text = blockMap[id].dom
          /\ blockMap'[id].dom = blockMap[id].dom]_vars

\* C14, witness: the displayed page was extracted again and a block kept a
\* live text that is neither the resolved text nor the text of the page
C14_Witness ==
  /\ act = "renderPageReextracted"
  /\ \E id \in DOMAIN blockMap :
       \A d \in Docs :
         /\ blockMap[id].text # getResolvedText(id, PdfText(d, id[1], id[2]))
         /\ blockMap[id].text # PdfText(d, id[1], id[2])

\* the record of localStorage may be used for the document that is open
StoreEligible ==
  LET storedEdits == getStoredEdits(ls)
  IN storedEdits.ok /\ storedEdits.pdfName = CurrentResume /\ storedEdits.isDirty

\* C15: the record of localStorage takes part in the resolution of a text only
\* when it belongs to the document and its dirty flag is true; otherwise the
\* resolved text is the saved text of the block, or the text of the page when
\* the block has no saved text.
C15_StoreOnlyWhenDirty ==
  \A id \in CanvasIds : \A d \in Docs :
    LET originalText == PdfText(d, id[1], id[2])
    IN ~StoreEligible
       => getResolvedText(id, originalText)
            = IF id \in DOMAIN savedBlocksMap THEN savedBlocksMap[id]
              ELSE originalText

\* C16: every text of the saved-blocks map handed to the canvas is the text the
\* backend accepted for the block in a successful save (blocks that were never
\* edited appear in the map with the text of the page); no entry is a text
\* whose save is pending or has failed.
C16_SavedBlocksAccepted ==
  \A id \in DOMAIN savedBlocksMap :
    \/ Confirmed(id, savedBlocksMap[id])
    \/ \E d \in Docs : savedBlocksMap[id] = PdfText(d, id[1], id[2])

\* the block of a drawing is painted: its rectangle and its text are drawn
Covered(block) ==
  /\ \E k \in DOMAIN exportRun.drawn :
       /\ exportRun.drawn[k].op = "drawRectangle"
       /\ exportRun.drawn[k].block = block.id
       /\ exportRun.drawn[k].page = block.page
  /\ \E k \in DOMAIN exportRun.drawn :
       /\ exportRun.drawn[k].op = "drawText"
       /\ exportRun.drawn[k].block = block.id
       /\ exportRun.drawn[k].page = block.page

C17_WitnessClean ==
  /\ exportRun.pc = "done"
  /\ exportRun.blocks # <<>>
  /\ \A i \in DOMAIN exportRun.blocks :
       /\ exportRun.blocks[i].id \in DOMAIN exportRun.blockStates
       /\ ~exportRun.blockStates[exportRun.blocks[i].id].isDirty
  /\ exportRun.drawn = <<>>

Geometry(blocks) ==
  {[id |-> blocks[k].id, x |-> blocks[k].x, y |-> blocks[k].y,
    width |-> blocks[k].width, height |-> blocks[k].height] : k \in DOMAIN blocks}

\* C19: the extractions of one page of one document at one scale give the same
\* block ids with the same geometry, whatever the overlay, localStorage and
\* the saved blocks hold at the time; no id occurs twice in an extraction.
C19_ExtractionDeterministic ==
  \A p, q \in DOMAIN extractRun.passes :
    /\ Geometry(extractRun.passes[p]) = Geometry(extractRun.passes[q])
    /\ \A i, j \in DOMAIN extractRun.passes[p] :
         extractRun.passes[p][i].id = extractRun.passes[p][j].id => i = j

\* C19, witness: two extractions of a page with two blocks, made in states
\* that gave the blocks different texts
C19_Witness ==
  /\ Len(extractRun.passes) = 2
  /\ Len(extractRun.passes[1]) = 2
  /\ \E k \in DOMAIN extractRun.passes[1] :
       extractRun.passes[1][k].text # extractRun.passes[2][k].text

\* C20: when the update endpoint rejects a save with a 4xx status other than
\* 404, the SaveError that reaches the caller is a validation error, and the
\* request is not sent again.
C20_ClientErrorIsValidation ==
  [][(act' = "fetchHttpError" /\ saveError'.status \in (400..499) \ {404})
     => (/\ saveError'.code = "VALIDATION_ERROR"
         /\ DOMAIN promises' \subseteq DOMAIN promises
         /\ \A p \in DOMAIN promises' : promises'[p].fetches = promises[p].fetches
         /\ nRequests' = nRequests)]_vars

\* the saves queued while the running flush was in flight: the flush did not
\* send their text
QueuedDuringFlight ==
  {b \in DOMAIN pendingSaves :
     b \notin DOMAIN flight \/ flight[b].newText # pendingSaves[b].newText}

\* C21: an edit committed while a flush is in flight is not dropped: when the
\* flush ends its save is still queued, so hasPendingChanges() is still true.
C21_CommitDuringFlightKept ==
  [][(isSavingRef /\ ~isSavingRef')
     => \A b \in QueuedDuringFlight :
          /\ b \in DOMAIN pendingSaves'
          /\ pendingSaves'[b] = pendingSaves[b]]_vars

\* C22: when every request is answered, fails or times out, every call of
\* updateResumeBlocks settles, and so every flush ends and gives up the
\* isSavingRef flag.
C22_EveryCallSettles ==
  /\ \A p \in RequestIds : (p \in DOMAIN promises) ~> (p \notin DOMAIN promises)
  /\ isSavingRef ~> ~isSavingRef

C24_CachedDocIsCurrent ==
  (\A r \in DOMAIN renders : renders[r].pc # "load")
  => pdfDocRef \in {currentPdfUrlRef, NoDoc, Destroyed}

\* C25: on focusout the live text of the span is compared with the text it had
\* at focus.  When they differ, localStorage gets the live text for the block
\* with the dirty flag true, the save {oldText: text at focus, newText: live
\* text} is queued under the id of the block, and onTextChange is called; when
\* they are equal, localStorage and the queue stay as they are.
C25_BlurCommits ==
  [][act' = "handleBlur"
     => LET b == focused
            live == blockMap[b].dom
            snapshot == focusSnap.dom
        IN IF live # snapshot
             THEN /\ getStoredEdits(ls').ok
                  /\ b \in DOMAIN getStoredEdits(ls').edits
                  /\ getStoredEdits(ls').edits[b] = live
                  /\ getStoredEdits(ls').isDirty
                  /\ b \in DOMAIN pendingSaves'
                  /\ pendingSaves'[b] = [blockId |-> b, oldText |-> snapshot,
                                         newText |-> live]
                  /\ textChange' = [blockId |-> b, oldText |-> snapshot,
                                    newText |-> live]
             ELSE /\ ls' = ls
                  /\ pendingSaves' = pendingSaves
                  /\ textChange' = NoCall]_vars

\* C25, witness: a blur has just committed a changed text over an earlier
\* commit of the block
C25_Witness ==
  /\ act = "handleBlur"
  /\ textChange # NoCall
  /\ textChange.oldText \in TypeTexts
  /\ textChange.blockId \in DOMAIN pendingSaves
  /\ getStoredEdits(ls).isDirty

\* C25, witness: a blur of a span whose text is the one it had at focus
C25_WitnessUnchanged ==
  /\ act = "handleBlur"
  /\ textChange = NoCall
  /\ pendingSaves # EmptyMap

\* C26: a change of the content of the span that is being edited writes nothing
\* to localStorage, queues and sends no save, and leaves hasPendingChanges() as
\* it is; the edit goes on.
C26_TypingHasNoEffect ==
  [][act' = "handleTextMutation"
     => (/\ ls' = ls
         /\ pendingSaves' = pendingSaves
         /\ (pendingSaves' # EmptyMap) = (pendingSaves # EmptyMap)
         /\ hasPendingState' = hasPendingState /\ hostPending' = hostPending
         /\ flight' = flight /\ isSavingRef' = isSavingRef
         /\ promises' = promises /\ pendingRequests' = pendingRequests
         /\ nRequests' = nRequests /\ remoteEdits' = remoteEdits
         /\ textChange' = NoCall
         /\ focused' = focused)]_vars

\* C26, witness: the text of the focused span has just been changed, nothing is
\* queued and localStorage holds nothing
C26_Witness ==
  /\ act = "handleTextMutation"
  /\ focused \in DOMAIN blockMap
  /\ blockMap[focused].dom # blockMap[focused].text
  /\ pendingSaves = EmptyMap
  /\ ~getStoredEdits(ls).ok

\* C27: at most one flush is in flight.  A flush starts only when saves are
\* pending and no flush is running; while a flush is running, no step (the
\* auto-save timer, Save, Analyze, Export) starts another one or creates a
\* request, and the running flush stays the one its caller awaits.
C27_OneFlushInFlight ==
  [][/\ (~isSavingRef /\ isSavingRef') => pendingSaves # EmptyMap
     /\ isSavingRef
          => (/\ nRequests' = nRequests
              /\ DOMAIN promises' \subseteq DOMAIN promises
              /\ act' # "autoSave"
              /\ isSavingRef'
                   => (/\ flushCaller' = flushCaller
                       /\ DOMAIN flight' = DOMAIN flight
                       /\ \A b \in DOMAIN flight :
                            /\ flight'[b].pid = flight[b].pid
                            /\ flight'[b].newText = flight[b].newText))]_vars

\* C27, witness: Save was clicked while a flush was running with a save queued
\* that the flush did not send; saveChanges returned at once
C27_Witness ==
  /\ act = "handleSave"
  /\ isSavingRef
  /\ lastRet.caller = "save"
  /\ flushCaller = "auto"
  /\ \E b \in DOMAIN pendingSaves :
       b \in DOMAIN flight /\ flight[b].newText # pendingSaves[b].newText

\* C28: while a request is unsettled it is the one registered under the key
\* of its payload, so that another updateResumeBlocks call with that payload
\* finds it, sends nothing and settles as it does; the key goes only when the
\* request settles.
C28_UnsettledIsRegistered ==
  \A p \in DOMAIN promises :
    /\ promises[p].key \in DOMAIN pendingRequests
    /\ pendingRequests[promises[p].key] = p

\* C29: two calls of updateResumeBlocks get the same request key, and so share
\* one request, only when their payloads are the same sequence of
\* (blockId, newText) pairs, whatever characters the ids and texts contain.
C29_SameKeySamePayload ==
  (keyRun.keys # <<>> /\ keyRun.keys[1] = keyRun.keys[2])
  => keyRun.first = keyRun.second


\* the edits the store holds for the document name the editor uses
StoredEdits ==
  IF getStoredEdits(ls).ok THEN getStoredEdits(ls).edits ELSE EmptyMap

\* C30: from the upload of a new PDF until the first commit that follows it,
\* the store holds no edit (every edit it could hold was made in the previous
\* document)
C30_NoStaleEditAfterUpload ==
  newUpload # "none" => StoredEdits = EmptyMap

\* C30, for the uploads whose extractPDFBlocks clears the store: from such an
\* upload until the first commit that follows it, the store holds no edit
C30_ClearedStaysClear ==
  newUpload = "cleared" => StoredEdits = EmptyMap


\* the block ids the updates of the saveEditsToStorage call name
UpdatedIds == {storeRun.updates[i].blockId : i \in DOMAIN storeRun.updates}

\* the newText of the last update of the call that names block b
LastUpdateText(b) ==
  LET last == CHOOSE i \in DOMAIN storeRun.updates :
                /\ storeRun.updates[i].blockId = b
                /\ \A j \in DOMAIN storeRun.updates :
                     storeRun.updates[j].blockId = b => j <= i
  IN storeRun.updates[last].newText

\* what saveEditsToStorage leaves of the prior record: its other entries when
\* it had the same document name, none of them when it had another
PriorEntriesFramed(prior, record) ==
  /\ (prior.ok /\ prior.pdfName = storeRun.pdfName)
       => /\ DOMAIN record.edits = DOMAIN prior.edits \cup UpdatedIds
          /\ \A b \in DOMAIN prior.edits \ UpdatedIds :
               record.edits[b] = prior.edits[b]
  /\ (~prior.ok \/ prior.pdfName # storeRun.pdfName)
       => DOMAIN record.edits = UpdatedIds

C31_WitnessOtherName ==
  /\ storeRun.called
  /\ storeRun.pdfName = "other"
  /\ getStoredEdits(storeRun.before).ok
  /\ getStoredEdits(storeRun.before).pdfName = CurrentResume
  /\ DOMAIN getStoredEdits(storeRun.before).edits \ UpdatedIds # {}
  /\ DOMAIN getStoredEdits(storeRun.after).edits = UpdatedIds


\* C32: after the canvas commits text t for an overlay block, the block-state
\* map handed to exportToPDF (state.blocks) holds, for the extraction block of
\* the same page and fragment, a dirty state with currentText = t
C32_CommitReachesExportState ==
  wordStyle.commit # NoCommit
  => LET id == CorrespondingBlock(editorState.extractionResult,
                                  wordStyle.commit.block).id
     IN /\ id \in DOMAIN editorState.blocks
        /\ editorState.blocks[id].isDirty
        /\ editorState.blocks[id].currentText = wordStyle.commit.text

\* C35: in every state of the editor reducer each block state has
\* isDirty = (currentText # originalText)
C35_DirtyIffChanged ==
  \A id \in DOMAIN editorState.blocks :
    editorState.blocks[id].isDirty
      = (editorState.blocks[id].currentText # editorState.blocks[id].originalText)

\* a block that was edited and set editing, next to one that was edited back
C35_Witness ==
  \E id, other \in DOMAIN editorState.blocks :
    /\ editorState.blocks[id].isDirty
    /\ editorState.blocks[id].isEditing
    /\ editorState.blocks[id].currentText \in TypedTexts
    /\ ~editorState.blocks[other].isDirty
    /\ editorState.blocks[other].isEditing


\* the place in extractionResult.blocks of the extraction block of the same
\* page and fragment as canvas block blockId, every page holding one
\* extraction block per text item
CorrespondingId(blockId) ==
  <<0, (blockId[1] - 1) * Cardinality(Indices) + blockId[2]>>

\* C33: the remote save of an overlay block is sent under the id of the
\* extraction block of the same page and the same fragment
C33_SaveUnderCorrespondingId ==
  \A b \in DOMAIN flight :
    flight[b].pid \in DOMAIN promises
      => promises[flight[b].pid].key.blockId = CorrespondingId(b)


\* C34: a re-extraction that happens while a block is being edited (its
\* displayed text differs from the rollback snapshot, the last committed text)
\* leaves the block in its edit session with the same snapshot: the
\* uncommitted text does not become the snapshot
C34_ReextractionKeepsSnapshot ==
  [][(/\ act' \in {"renderPageReextracted", "renderPageGotText"}
      /\ focused # None
      /\ focused \in DOMAIN blockMap'
      /\ blockMap[focused].dom # RollbackText(focused)
      /\ blockMap'[focused].dom # RollbackText(focused))
     => (/\ focused' = focused
         /\ focused \in DOMAIN originalTextRef'
         /\ originalTextRef'[focused] = RollbackText(focused))]_vars


\* C36: when updatedBlocks or localStorage holds an entry for the block id,
\* that entry is the resolved text, the empty string included; the original
\* text is returned only when neither holds an entry
C36_EntryWinsEvenEmpty ==
  resolveRun.results # <<>>
  => LET blockId == resolveRun.blockId
         storedEdits == getStoredEdits(ls)
         resolved == resolveRun.results[Len(resolveRun.results)]
     IN resolved =
          IF blockId \in DOMAIN savedBlocksMap THEN savedBlocksMap[blockId]
          ELSE IF storedEdits.ok /\ blockId \in DOMAIN storedEdits.edits
            THEN storedEdits.edits[blockId]
          ELSE resolveRun.originalText


\* the lower-cased font name of the getFontInfo calls contains a keyword of the list
Hits(patterns) == SomeIncluded(patterns, ToLowerCase(fontRun.fontName))

\* C37: the category is that of the first list with a keyword in the name, in
\* the order monospace, sans-serif, serif; with no keyword a generic
\* identifier is serif and anything else sans-serif; the weight and the style
\* follow from their own keyword lists alone, and are normal when the name
\* has no bold/light keyword, no italic keyword
C37_FirstMatchingCategory ==
  \A k \in DOMAIN fontRun.results :
    LET fontInfo == fontRun.results[k]
        generic == StartsWithG(fontRun.fontName) \/ MatchesGeneric(fontRun.fontName)
        noList == /\ ~Hits(MONOSPACE_PATTERNS) /\ ~Hits(SANS_SERIF_PATTERNS)
                  /\ ~Hits(SERIF_PATTERNS)
    IN /\ Hits(MONOSPACE_PATTERNS) => fontInfo.category = "monospace"
       /\ (~Hits(MONOSPACE_PATTERNS) /\ Hits(SANS_SERIF_PATTERNS))
            => fontInfo.category = "sans-serif"
       /\ (~Hits(MONOSPACE_PATTERNS) /\ ~Hits(SANS_SERIF_PATTERNS) /\ Hits(SERIF_PATTERNS))
            => fontInfo.category = "serif"
       /\ (noList /\ generic) => fontInfo.category = "serif"
       /\ (noList /\ ~generic) => fontInfo.category = "sans-serif"
       /\ Hits(BOLD_PATTERNS) => fontInfo.weight = "bold"
       /\ (~Hits(BOLD_PATTERNS) /\ Hits(LIGHT_PATTERNS)) => fontInfo.weight = "light"
       /\ (~Hits(BOLD_PATTERNS) /\ ~Hits(LIGHT_PATTERNS)) => fontInfo.weight = "normal"
       /\ Hits(ITALIC_PATTERNS) => fontInfo.style = "italic"
       /\ ~Hits(ITALIC_PATTERNS) => fontInfo.style = "normal"

\* a name with keywords of the sans-serif and of the serif list, classified
\* twice (the second time from the cache)
C37_Witness ==
  /\ Len(fontRun.results) = 2
  /\ Hits(SANS_SERIF_PATTERNS) /\ Hits(SERIF_PATTERNS) /\ ~Hits(MONOSPACE_PATTERNS)
  /\ Hits(BOLD_PATTERNS)
  /\ fontRun.results[2].category = "sans-serif"
  /\ fontRun.results[2].weight = "bold"
  /\ fontRun.results[2].style = "normal"

\* a generic identifier with no keyword, and a generic identifier with one
C37_WitnessGeneric ==
  /\ fontRun.results # <<>>
  /\ MatchesGeneric(fontRun.fontName) /\ ~StartsWithG(fontRun.fontName)
  /\ fontRun.results[1].category \in {"serif", "monospace"}
  /\ Hits(MONOSPACE_PATTERNS) = (fontRun.results[1].category = "monospace")

====
